---- MODULE Spec2Model ----
(***************************************************************************)
(* Golf Pick 'Em League: pick resolution and season-usage engine.         *)
(*                                                                         *)
(* The database tables of models.py are the state; the request handlers   *)
(* of app.py and the sync functions of sync_api.py are the actions.  A    *)
(* handler runs in one SQLAlchemy session and is one atomic step: what it *)
(* commits is the next state, what it rolls back is not.                  *)
(***************************************************************************)
EXTENDS Integers, Sequences, FiniteSets, TLC

VARIABLES
    now,           \* wall clock, datetime.now(LEAGUE_TZ), in ticks of 12 hours
    users,         \* ids of the rows of table user
    player,        \* table player: id -> row
    tournament,    \* table tournament: id -> row
    field,         \* table tournament_field: tournament id -> set of player ids
    results,       \* table tournament_result: <<tournament, player>> -> row
    picks,         \* table pick: <<user, tournament>> -> row
    usage,         \* table season_player_usage: <<user, player, season>> -> number of rows
    total_points,  \* column user.total_points
    last,          \* the last handler that ran and what it returned
    request,       \* the SlashGolfAPI._make_request call under way
    projection,    \* the calculate_projected_earnings call under way
    seconds,       \* wall clock: seconds gone since the last 12-hour tick of `now`
    last_status_refresh, \* app.config["_LAST_STATUS_REFRESH"] of the web process
    field_others   \* rows of table tournament_field of golfers nobody here picks

vars == <<now, users, player, tournament, field, results, picks, usage,
          total_points, last, request, projection, seconds, last_status_refresh,
          field_others>>

-----------------------------------------------------------------------------
(* Bounds of the model *)

MaxTime == 2
MaxRuns == 2

-----------------------------------------------------------------------------
(* Identifiers and column values *)

Users == {"u1", "u2"}
Players == {"p1", "p2", "p3"}
Tournaments == {"t1", "t2"}

SEASON_YEAR == 2026
Seasons == {SEASON_YEAR}

\* SQL NULL of a nullable integer column, None of a nullable foreign key
NULL == -1
NoPlayer == "none"

\* app.config without the key "_LAST_STATUS_REFRESH"
NoRefresh == [now |-> NULL, seconds |-> NULL]

UsageKeys == Users \X Players \X Seasons

NoResult ==
    [exists |-> FALSE, status |-> "none", rounds_completed |-> 0, earnings |-> 0]

NoPickRow ==
    [exists |-> FALSE, primary_player_id |-> NoPlayer, backup_player_id |-> NoPlayer,
     active_player_id |-> NoPlayer, points_earned |-> NULL,
     primary_used |-> FALSE, backup_used |-> FALSE]

\* Pick(user_id, tournament_id, primary_player_id, backup_player_id): the
\* other columns take their defaults
NewPick(primary_id, backup_id) ==
    [exists |-> TRUE, primary_player_id |-> primary_id, backup_player_id |-> backup_id,
     active_player_id |-> NoPlayer, points_earned |-> NULL,
     primary_used |-> FALSE, backup_used |-> FALSE]

NoTournament ==
    [exists |-> FALSE, season_year |-> SEASON_YEAR, start_date |-> 0, end_date |-> 0,
     pick_deadline |-> NULL, is_team_event |-> FALSE, status |-> "upcoming",
     results_finalized |-> FALSE, picks_open_notified |-> FALSE]

Min(a, b) == IF a < b THEN a ELSE b

-----------------------------------------------------------------------------
(* models.py *)

\* TournamentResult.wd_before_round_2_complete and the two inline copies of
\* it in Pick.resolve_pick; a missing row (None) is falsy
wd_early_ThroughRound2(result) ==
    /\ result.exists
    /\ result.status = "wd"
    /\ result.rounds_completed <= 2

wd_early(result) ==
    /\ result.exists
    /\ result.status = "wd"
    /\ result.rounds_completed < 2

\* Tournament.is_deadline_passed
is_deadline_passed(t) ==
    IF tournament[t].pick_deadline = NULL
    THEN FALSE
    ELSE now > tournament[t].pick_deadline

\* User.get_used_player_ids: every usage row of the user, whatever its season
get_used_player_ids(usg, u) ==
    {p \in Players : \E s \in Seasons : usg[<<u, p, s>>] > 0}

\* earnings // 2 for the team event (mutation: rounded up)
TeamSplit_RoundUp(earnings, is_team_event) ==
    IF is_team_event THEN (earnings + 1) \div 2 ELSE earnings

TeamSplit(earnings, is_team_event) ==
    IF is_team_event THEN earnings \div 2 ELSE earnings

\* The branches of Pick.resolve_pick.  ok = FALSE is a raise of ValueError;
\* pick is the row as the method leaves it in the session.

\* no Result row for the primary: raise before any column is written
\* (mutation: resolve with the primary and zero points)
PrimaryMissing_ZeroPoints(pick) ==
    [ok |-> TRUE,
     pick |-> [pick EXCEPT !.active_player_id = pick.primary_player_id,
                           !.points_earned = 0,
                           !.primary_used = TRUE,
                           !.backup_used = FALSE]]

PrimaryMissing(pick) ==
    [ok |-> FALSE, pick |-> pick]

\* primary and backup both withdrew before completing round 2
\* (mutation: the backup is activated and consumed)
BothWdEarly_BackupActive(pick) ==
    [ok |-> TRUE,
     pick |-> [pick EXCEPT !.active_player_id = pick.backup_player_id,
                           !.points_earned = 0,
                           !.primary_used = FALSE,
                           !.backup_used = TRUE]]

BothWdEarly(pick) ==
    [ok |-> TRUE,
     pick |-> [pick EXCEPT !.active_player_id = pick.primary_player_id,
                           !.points_earned = 0,
                           !.primary_used = TRUE,
                           !.backup_used = FALSE]]

\* primary withdrew early, backup did not: active_player_id is written first,
\* then the raise if the backup has no Result row
\* (mutation: the primary is marked as used too)
BackupActivates_PrimaryUsed(pick, backup_result, is_team_event) ==
    IF ~backup_result.exists
    THEN [ok |-> FALSE,
          pick |-> [pick EXCEPT !.active_player_id = pick.backup_player_id]]
    ELSE [ok |-> TRUE,
          pick |-> [pick EXCEPT !.active_player_id = pick.backup_player_id,
                                !.points_earned =
                                    TeamSplit(backup_result.earnings, is_team_event),
                                !.primary_used = TRUE,
                                !.backup_used = TRUE]]

BackupActivates(pick, backup_result, is_team_event) ==
    IF ~backup_result.exists
    THEN [ok |-> FALSE,
          pick |-> [pick EXCEPT !.active_player_id = pick.backup_player_id]]
    ELSE [ok |-> TRUE,
          pick |-> [pick EXCEPT !.active_player_id = pick.backup_player_id,
                                !.points_earned =
                                    TeamSplit(backup_result.earnings, is_team_event),
                                !.primary_used = FALSE,
                                !.backup_used = TRUE]]

\* primary did not withdraw early (mutation: no flag is set)
PrimaryPlays_NoFlag(pick, primary_result, is_team_event) ==
    [ok |-> TRUE,
     pick |-> [pick EXCEPT !.active_player_id = pick.primary_player_id,
                           !.points_earned =
                               TeamSplit(primary_result.earnings, is_team_event)]]

PrimaryPlays(pick, primary_result, is_team_event) ==
    [ok |-> TRUE,
     pick |-> [pick EXCEPT !.active_player_id = pick.primary_player_id,
                           !.points_earned =
                               TeamSplit(primary_result.earnings, is_team_event),
                           !.primary_used = TRUE,
                           !.backup_used = FALSE]]

\* Pick.resolve_pick up to its return or raise; the usage row it adds on
\* return is InsertUsage, applied by the callers.
resolve_pick(pick, primary_result, backup_result, is_team_event) ==
    IF ~primary_result.exists
    THEN PrimaryMissing(pick)
    ELSE IF wd_early(primary_result)
    THEN IF wd_early(backup_result)
         THEN BothWdEarly(pick)
         ELSE BackupActivates(pick, backup_result, is_team_event)
    ELSE PrimaryPlays(pick, primary_result, is_team_event)

\* Pick.resolve_pick applied to the rows of the database
ResolveRow(pks, u, t) ==
    resolve_pick(pks[<<u, t>>],
                 results[<<t, pks[<<u, t>>].primary_player_id>>],
                 results[<<t, pks[<<u, t>>].backup_player_id>>],
                 tournament[t].is_team_event)

\* db.session.add(usage) of resolve_pick, as the flush sends it: the unique
\* constraint unique_player_usage refuses a second row for the key
UsageInsertAllowed(usg, key) == usg[key] = 0

InsertUsage(usg, key) == [usg EXCEPT ![key] = @ + 1]

\* User.calculate_total_points
RECURSIVE SumPoints(_, _, _)
SumPoints(pks, u, ts) ==
    IF ts = {} THEN 0
    ELSE LET t == CHOOSE x \in ts : TRUE
             pick == pks[<<u, t>>]
             counts == /\ pick.exists
                       /\ tournament[t].status = "complete"
                       /\ pick.points_earned # NULL
                       /\ pick.points_earned # 0
         IN (IF counts THEN pick.points_earned ELSE 0) + SumPoints(pks, u, ts \ {t})

\* (mutation: the sum is added to the stored total)
calculate_total_points_Accumulate(pks, u) ==
    total_points[u] + SumPoints(pks, u, Tournaments)

calculate_total_points(pks, u) == SumPoints(pks, u, Tournaments)

-----------------------------------------------------------------------------
(* The value a handler leaves behind: which one ran last, on which          *)
(* tournament, how many times in a row, and what it returned.               *)

Idle ==
    [op |-> "none", t |-> "none", n |-> 0, processed |-> 0, skipped |-> <<>>,
     resolved |-> {}, raised |-> FALSE]

\* The n-th consecutive run of batch `op` on tournament t, counted up to MaxRuns
Ran(op, t, processed, skipped, resolved, raised) ==
    [op |-> op, t |-> t,
     n |-> IF last.op = op /\ last.t = t THEN Min(last.n + 1, MaxRuns) ELSE 1,
     processed |-> processed, skipped |-> skipped, resolved |-> resolved,
     raised |-> raised]

\* Pick.query.filter_by(tournament_id=...).all(): the users whose pick rows the
\* query returns, in the order the database returns them (no ORDER BY)
PickOwners(t) == {u \in Users : picks[<<u, t>>].exists}

Orders(S) == {ord \in [1..Cardinality(S) -> S] : \A u \in S : \E i \in DOMAIN ord : ord[i] = u}

-----------------------------------------------------------------------------
(* app.py: process_tournament_results *)

\* The batch without its delete of the contestant's usage rows
DeleteUsage_Nothing(usg, u, season, ids) == usg

\* SeasonPlayerUsage.query.filter(user_id, season_year, player_id IN
\* [primary, backup]).delete()
DeleteUsage(usg, u, season, ids) ==
    [k \in UsageKeys |->
        IF k[1] = u /\ k[3] = season /\ k[2] \in ids THEN 0 ELSE usg[k]]

\* One pass of the loop body for the pick of user u, inside
\* db.session.begin_nested(): the savepoint is released when the body ends
\* and rolled back (pick row, usage rows and total restored) when it raises.
\* resolve_pick returns a 4-tuple, which is never falsy, so the branch that
\* appends to `skipped` is never taken.
AppResolveOne_KeepsResolved(acc, u, t) ==
    LET pick == acc.picks[<<u, t>>]
        season == tournament[t].season_year
        usage1 == DeleteUsage(acc.usage, u, season,
                              {pick.primary_player_id, pick.backup_player_id})
        r == ResolveRow(acc.picks, u, t)
        key == <<u, r.pick.active_player_id, season>>
        picks2 == [acc.picks EXCEPT ![<<u, t>>] = r.pick]
    IN IF pick.points_earned = NULL /\ r.ok /\ UsageInsertAllowed(usage1, key)
       THEN [acc EXCEPT !.picks = picks2,
                        !.usage = InsertUsage(usage1, key),
                        !.total = [@ EXCEPT ![u] = calculate_total_points(picks2, u)],
                        !.processed = @ + 1,
                        !.resolved = @ \cup {u}]
       ELSE acc

AppResolveOne(acc, u, t) ==
    LET pick == acc.picks[<<u, t>>]
        season == tournament[t].season_year
        usage1 == DeleteUsage(acc.usage, u, season,
                              {pick.primary_player_id, pick.backup_player_id})
        r == ResolveRow(acc.picks, u, t)
        key == <<u, r.pick.active_player_id, season>>
        picks2 == [acc.picks EXCEPT ![<<u, t>>] = r.pick]
    IN IF r.ok /\ UsageInsertAllowed(usage1, key)
       THEN [acc EXCEPT !.picks = picks2,
                        !.usage = InsertUsage(usage1, key),
                        !.total = [@ EXCEPT ![u] = calculate_total_points(picks2, u)],
                        !.processed = @ + 1,
                        !.resolved = @ \cup {u}]
       ELSE acc

RECURSIVE AppLoop(_, _, _, _)
AppLoop(acc, ord, i, t) ==
    IF i > Len(ord) THEN acc
    ELSE AppLoop(AppResolveOne(acc, ord[i], t), ord, i + 1, t)

process_tournament_results(t, ord) ==
    AppLoop([picks |-> picks, usage |-> usage, total |-> total_points,
             processed |-> 0, skipped |-> <<>>, resolved |-> {}], ord, 1, t)

\* admin_process_results: POST /admin/process-results/<tournament_id>
AdminProcessResults(t) ==
    /\ tournament[t].exists
    /\ IF tournament[t].status # "complete"
       THEN /\ UNCHANGED <<picks, usage, total_points>>
            /\ last' = Idle
       ELSE \E ord \in Orders(PickOwners(t)) :
              LET out == process_tournament_results(t, ord)
              IN /\ picks' = out.picks
                 /\ usage' = out.usage
                 /\ total_points' = out.total
                 /\ last' = Ran("process_tournament_results", t, out.processed,
                                out.skipped, out.resolved, FALSE)
    /\ UNCHANGED <<field_others, seconds, last_status_refresh, projection, request, now, users, player, tournament, field, results>>

-----------------------------------------------------------------------------
(* sync_api.py: TournamentSync.process_tournament_picks *)

\* One pass of the loop body.  There is no savepoint: a ValueError of
\* resolve_pick is caught and what the method had already assigned stays in
\* the session; the usage row is flushed by the query of
\* calculate_total_points, and an IntegrityError there rolls the whole
\* transaction back and leaves the session unusable until the function ends.
SyncResolveOne(acc, u, t) ==
    LET season == tournament[t].season_year
        r == ResolveRow(acc.picks, u, t)
        key == <<u, r.pick.active_player_id, season>>
        picks2 == [acc.picks EXCEPT ![<<u, t>>] = r.pick]
    IN IF acc.aborted THEN acc
       ELSE IF ~r.ok THEN [acc EXCEPT !.picks = picks2]
       ELSE IF ~UsageInsertAllowed(acc.usage, key) THEN [acc EXCEPT !.aborted = TRUE]
       ELSE [acc EXCEPT !.picks = picks2,
                        !.usage = InsertUsage(acc.usage, key),
                        !.total = [@ EXCEPT ![u] = calculate_total_points(picks2, u)],
                        !.processed = @ + 1,
                        !.resolved = @ \cup {u}]

RECURSIVE SyncLoop(_, _, _, _)
SyncLoop(acc, ord, i, t) ==
    IF i > Len(ord) THEN acc
    ELSE SyncLoop(SyncResolveOne(acc, ord[i], t), ord, i + 1, t)

process_tournament_picks(t, ord) ==
    SyncLoop([picks |-> picks, usage |-> usage, total |-> total_points,
              processed |-> 0, resolved |-> {}, aborted |-> FALSE], ord, 1, t)

ProcessTournamentPicks(t) ==
    /\ tournament[t].exists
    /\ IF tournament[t].status # "complete"
       THEN /\ UNCHANGED <<picks, usage, total_points>>
            /\ last' = Idle
       ELSE \E ord \in Orders(PickOwners(t)) :
              LET out == process_tournament_picks(t, ord)
              IN IF out.aborted
                 THEN /\ UNCHANGED <<picks, usage, total_points>>
                      /\ last' = Ran("process_tournament_picks", t, 0, <<>>, {}, TRUE)
                 ELSE /\ picks' = out.picks
                      /\ usage' = out.usage
                      /\ total_points' = out.total
                      /\ last' = Ran("process_tournament_picks", t, out.processed,
                                     <<>>, out.resolved, FALSE)
    /\ UNCHANGED <<field_others, seconds, last_status_refresh, projection, request, now, users, player, tournament, field, results>>

-----------------------------------------------------------------------------
(* app.py: make_pick and admin_override_pick *)

\* Pick.validate_availability(season_year): the list of errors is empty
validate_availability(u, t, primary_id, backup_id, season_year) ==
    /\ primary_id \in field[t]
    /\ backup_id \in field[t]
    /\ usage[<<u, primary_id, season_year>>] = 0
    /\ usage[<<u, backup_id, season_year>>] = 0

\* used_player_ids after the two remove() calls for an existing pick
UsedExceptOwn(u, t) ==
    IF picks[<<u, t>>].exists
    THEN get_used_player_ids(usage, u)
             \ {picks[<<u, t>>].primary_player_id, picks[<<u, t>>].backup_player_id}
    ELSE get_used_player_ids(usage, u)

\* Player.query.join(TournamentField).filter(tournament_id, is_amateur == False)
FieldPlayers(t) == {p \in field[t] : ~player[p].is_amateur}

\* available_players of make_pick
AvailablePlayers(u, t) == FieldPlayers(t) \ UsedExceptOwn(u, t)

\* The row make_pick and admin_override_pick write: a new row, or the
\* existing one with its two golfers replaced and its resolution kept
WrittenPick_Swapped(u, t, primary_id, backup_id) ==
    IF picks[<<u, t>>].exists
    THEN [picks[<<u, t>>] EXCEPT !.primary_player_id = backup_id,
                                 !.backup_player_id = primary_id]
    ELSE NewPick(backup_id, primary_id)

WrittenPick(u, t, primary_id, backup_id) ==
    IF picks[<<u, t>>].exists
    THEN [picks[<<u, t>>] EXCEPT !.primary_player_id = primary_id,
                                 !.backup_player_id = backup_id]
    ELSE NewPick(primary_id, backup_id)

\* POST /pick/<tournament_id> by the logged-in user u
MakePick(u, t, primary_id, backup_id) ==
    /\ u \in users
    /\ tournament[t].exists
    /\ LET accepted ==
               /\ ~is_deadline_passed(t)
               /\ primary_id # backup_id
               /\ primary_id \in AvailablePlayers(u, t)
               /\ backup_id \in AvailablePlayers(u, t)
               /\ validate_availability(u, t, primary_id, backup_id, SEASON_YEAR)
       IN picks' = IF accepted
                   THEN [picks EXCEPT ![<<u, t>>] = WrittenPick(u, t, primary_id, backup_id)]
                   ELSE picks
    /\ last' = Idle
    /\ UNCHANGED <<field_others, seconds, last_status_refresh, projection, request, now, users, player, tournament, field, results, usage, total_points>>

\* POST /admin/override-pick for user u: no deadline check and no call of
\* validate_availability
AdminOverridePick(u, t, primary_id, backup_id) ==
    /\ u \in users
    /\ tournament[t].exists
    /\ LET accepted ==
               /\ primary_id # backup_id
               /\ primary_id \in FieldPlayers(t)
               /\ backup_id \in FieldPlayers(t)
               /\ primary_id \notin UsedExceptOwn(u, t)
               /\ backup_id \notin UsedExceptOwn(u, t)
       IN picks' = IF accepted
                   THEN [picks EXCEPT ![<<u, t>>] = WrittenPick(u, t, primary_id, backup_id)]
                   ELSE picks
    /\ last' = Idle
    /\ UNCHANGED <<field_others, seconds, last_status_refresh, projection, request, now, users, player, tournament, field, results, usage, total_points>>

-----------------------------------------------------------------------------
(* sync_api.py: TournamentSync.sync_tournament_results *)

\* What the provider answers: the leaderboard (None after the retries, or its
\* status), whether the earnings payload came, one row per player of the
\* earnings list with the status and rounds of the player's leaderboard row,
\* and whether a row or the commit raises an exception
NoRows == [p \in {} |-> p]

NoAnswer ==
    [leaderboard |-> "none", earnings_fetched |-> FALSE, rows |-> NoRows,
     raises |-> FALSE]

ResultOfRow(row) ==
    [exists |-> TRUE, status |-> row.status, rounds_completed |-> row.rounds,
     earnings |-> row.earnings]

\* `api_status not in ("complete", "official")` and `not earnings_data or
\* "leaderboard" not in earnings_data` both false
ReadyToFinalize(answer) ==
    /\ answer.leaderboard \in {"complete", "official"}
    /\ answer.earnings_fetched

\* What a call of sync_tournament_results on t leaves in `last`: what the
\* provider answered, the number the call returned, whether a provider call
\* came back without data (no leaderboard, or a final leaderboard but no
\* earnings list), whether the try block raised, and the status at entry
SyncedResults(t, answer, returned) ==
    [op |-> "sync_tournament_results", t |-> "none", n |-> 0, processed |-> 0,
     skipped |-> <<>>, resolved |-> {},
     raised |-> ReadyToFinalize(answer) /\ answer.raises,
     answer |-> answer,
     called |-> {t},
     nodata |-> IF \/ answer.leaderboard = "none"
                   \/ /\ answer.leaderboard \in {"complete", "official"}
                      /\ ~answer.earnings_fetched
                THEN {t} ELSE {},
     locked |-> {x \in {t} : is_deadline_passed(x)},
     entry_status |-> [x \in {t} |-> tournament[x].status],
     returned |-> [x \in {t} |-> returned]]

\* tournament.status = "complete"; tournament.results_finalized = True
Finalized_FlagOnly(row) == [row EXCEPT !.results_finalized = TRUE]

Finalized(row) == [row EXCEPT !.status = "complete", !.results_finalized = TRUE]

\* One session: the early returns write nothing, an exception in the try
\* block rolls back what the loop wrote, the commit writes the rows, the
\* status and the flag together
SyncTournamentResults(t, answer) ==
    /\ tournament[t].exists
    /\ IF ~ReadyToFinalize(answer)
       THEN /\ UNCHANGED <<results, tournament>>
            /\ last' = SyncedResults(t, answer, 0)
       ELSE IF answer.raises
       THEN /\ UNCHANGED <<results, tournament>>
            /\ last' = SyncedResults(t, answer, 0)
       ELSE /\ results' = [k \in Tournaments \X Players |->
                              IF k[1] = t /\ k[2] \in DOMAIN answer.rows
                              THEN ResultOfRow(answer.rows[k[2]])
                              ELSE results[k]]
            /\ tournament' = [tournament EXCEPT ![t] = Finalized(tournament[t])]
            /\ last' = SyncedResults(t, answer, Cardinality(DOMAIN answer.rows))
    /\ UNCHANGED <<field_others, seconds, last_status_refresh, projection, request, now, users, player, field, picks, usage, total_points>>

\* The provider reports a tournament complete only once it has ended, and
\* lists only players of its field
Answers(t, rowsets) ==
    {NoAnswer,
     [leaderboard |-> "in_progress", earnings_fetched |-> FALSE, rows |-> NoRows,
      raises |-> FALSE],
     [leaderboard |-> IF now >= tournament[t].end_date THEN "complete" ELSE "in_progress",
      earnings_fetched |-> FALSE, rows |-> NoRows, raises |-> FALSE]}
    \cup {[leaderboard |-> "complete", earnings_fetched |-> TRUE, rows |-> rows,
           raises |-> FALSE] :
             rows \in IF now >= tournament[t].end_date THEN rowsets ELSE {}}

\* The same, and the leaderboard reported official, a run whose try block
\* raises, and the earnings list of a tournament still in progress (which the
\* early return keeps the call from fetching)
AnswersAndFailures(t, rowsets) ==
    Answers(t, rowsets)
    \cup {[leaderboard |-> "in_progress", earnings_fetched |-> TRUE, rows |-> rows,
           raises |-> FALSE] : rows \in rowsets}
    \cup {[leaderboard |-> status, earnings_fetched |-> TRUE, rows |-> rows,
           raises |-> raises] :
             status \in {"complete", "official"}, raises \in BOOLEAN,
             rows \in IF now >= tournament[t].end_date THEN rowsets ELSE {}}

-----------------------------------------------------------------------------
(* Tournament lifecycle: status and pick deadline *)

\* A leaderboard payload of the provider: None after the retries (fetched
\* FALSE), without its "leaderboardRows" list (has_rows FALSE), or with the
\* status of the event, the earliest tee time its rows carry (NULL when they
\* carry none) and one row per listed player
NoData ==
    [fetched |-> FALSE, has_rows |-> FALSE, status |-> "", tee_time |-> NULL,
     rows |-> NoRows]

NoLeaderboardRows ==
    [fetched |-> TRUE, has_rows |-> FALSE, status |-> "", tee_time |-> NULL,
     rows |-> NoRows]

\* `not data or "leaderboardRows" not in data`
Unusable(data) == ~data.fetched \/ ~data.has_rows

\* A payload with its rows and tee times on which the try block of
\* sync_tournament_field raises (a row without "playerId", a database error)
Malformed ==
    [fetched |-> TRUE, has_rows |-> TRUE, status |-> "in progress", tee_time |-> 0,
     rows |-> [p \in {"p1", "p2"} |-> [status |-> "active", rounds |-> 0, earnings |-> 0]],
     raises |-> TRUE]

Raises(data) == "raises" \in DOMAIN data

\* Tournament.update_status_from_time, on a row of table tournament
update_status_from_time(row) ==
    IF row.status = "complete" THEN row
    ELSE LET deadline == IF row.pick_deadline # NULL THEN row.pick_deadline
                         ELSE row.start_date
         IN IF now >= row.end_date THEN [row EXCEPT !.status = "complete"]
            ELSE IF now >= row.start_date THEN [row EXCEPT !.status = "active"]
            ELSE IF now >= deadline THEN [row EXCEPT !.status = "upcoming"]
            ELSE row

\* TournamentSync._derive_status: "complete" or "official" in the hint, the
\* clock, "progress" or "live" in the hint, the clock
derive_status(row, status_hint) ==
    IF status_hint \in {"complete", "official"} THEN [row EXCEPT !.status = "complete"]
    ELSE IF now >= row.end_date THEN [row EXCEPT !.status = "complete"]
    ELSE IF status_hint \in {"in progress", "live"} THEN [row EXCEPT !.status = "active"]
    ELSE IF now >= row.start_date THEN [row EXCEPT !.status = "active"]
    ELSE [row EXCEPT !.status = "upcoming"]

\* TournamentSync._apply_fixed_deadline: the start date at the fallback hour
apply_fixed_deadline(row) == [row EXCEPT !.pick_deadline = row.start_date]

\* The callers' filter Tournament.status != "complete"
NotComplete_Anything(t) == TRUE

NotComplete(t) == tournament[t].status # "complete"

\* get_upcoming_tournaments_window (start within 10 days, not yet ended) and
\* get_active_tournaments (start within 12 hours, ended less than 6 hours
\* ago), before their _refresh_statuses; the clock ticks every 12 hours
get_upcoming_tournaments_window ==
    {t \in Tournaments : /\ tournament[t].exists
                         /\ tournament[t].start_date <= now + 20
                         /\ tournament[t].end_date >= now
                         /\ NotComplete(t)}

get_active_tournaments_AnyStatus ==
    {t \in Tournaments : /\ tournament[t].exists
                         /\ tournament[t].start_date <= now + 1
                         /\ tournament[t].end_date >= now}

get_active_tournaments ==
    {t \in Tournaments : /\ tournament[t].exists
                         /\ tournament[t].start_date <= now + 1
                         /\ tournament[t].end_date >= now
                         /\ NotComplete(t)}

\* _refresh_statuses(tournaments)
refresh_statuses(selected) ==
    [t \in Tournaments |->
        IF t \in selected THEN update_status_from_time(tournament[t]) ELSE tournament[t]]

\* What a sync command leaves behind: the tournaments it called its method
\* on, those whose payload was unusable, those whose deadline had passed
\* when the method was entered, the status each had at that moment and what
\* the method returned for each
Synced(op, called, data, entry, returned) ==
    [op |-> op, t |-> "none", n |-> 0, processed |-> 0, skipped |-> <<>>,
     resolved |-> {}, raised |-> FALSE,
     called |-> called,
     nodata |-> {t \in called : Unusable(data[t])},
     failed |-> {t \in called : Unusable(data[t]) \/ Raises(data[t])},
     tee_time |-> [t \in called |-> data[t].tee_time],
     locked |-> {t \in called : is_deadline_passed(t)},
     entry_status |-> [t \in called |-> entry[t].status],
     returned |-> returned]

\* before_request refresh_tournament_states, when the refresh interval has
\* elapsed: every upcoming or active tournament of the season
RefreshTournamentStates ==
    /\ tournament' =
          refresh_statuses({t \in Tournaments :
                               /\ tournament[t].exists
                               /\ tournament[t].season_year = SEASON_YEAR
                               /\ tournament[t].status \in {"upcoming", "active"}})
    /\ last' = Idle
    /\ UNCHANGED <<field_others, seconds, last_status_refresh, projection, request, now, users, player, field, results, picks, usage, total_points>>

sync_tournament_field_NoFallback(row, fld, data, is_free_mode) ==
    IF Unusable(data)
    THEN [row |-> row, field |-> fld, returned |-> 0]
    ELSE IF Raises(data)
    THEN [row |-> row, field |-> fld, returned |-> 0]
    ELSE LET row1 == IF data.tee_time # NULL
                     THEN [row EXCEPT !.pick_deadline = data.tee_time]
                     ELSE row
             row2 == derive_status(row1, data.status)
         IN [row |-> row2,
             field |-> fld \cup DOMAIN data.rows,
             returned |-> Cardinality(DOMAIN data.rows \ fld)]

\* TournamentSync.sync_tournament_field on the row and field of one
\* tournament: (0, None) on an unusable payload or
\* when the try block raises and the session is rolled back; else the
\* listed players join the field, the earliest tee time becomes the pick
\* deadline, the status is derived and a missing deadline is fixed
sync_tournament_field(row, fld, data, is_free_mode) ==
    IF Unusable(data)
    THEN [row |-> row, field |-> fld, returned |-> 0]
    ELSE IF Raises(data)
    THEN [row |-> row, field |-> fld, returned |-> 0]
    ELSE LET row1 == IF data.tee_time # NULL
                     THEN [row EXCEPT !.pick_deadline = data.tee_time]
                     ELSE row
             row2 == derive_status(row1, data.status)
             row3 == IF data.tee_time = NULL /\ is_free_mode THEN apply_fixed_deadline(row2)
                     ELSE IF row2.pick_deadline = NULL THEN apply_fixed_deadline(row2)
                     ELSE row2
         IN [row |-> row3,
             field |-> fld \cup DOMAIN data.rows,
             returned |-> Cardinality(DOMAIN data.rows \ fld)]

\* MIN_FIELD_SIZE
MIN_FIELD_SIZE == 50

\* What the mail server does with the "Picks Are Open" notification: the
\* number of emails send_email delivers, and whether an exception ends
\* send_picks_open_email or the commit of the flag after them
NoMail == [delivered |-> 0, raises |-> FALSE]

\* `field_count >= MIN_FIELD_SIZE and not tournament.picks_open_notified`
should_notify_Always(row, field_count) == field_count >= MIN_FIELD_SIZE

should_notify(row, field_count) ==
    field_count >= MIN_FIELD_SIZE /\ ~row.picks_open_notified

\* The notification block after a successful sync: the emails delivered by
\* this call, and the row with picks_open_notified set when
\* send_picks_open_email returned a positive count and the commit went through
notify_picks_open(row, field_count, mail) ==
    IF should_notify(row, field_count)
    THEN [row |-> IF mail.delivered > 0 /\ ~mail.raises
                  THEN [row EXCEPT !.picks_open_notified = TRUE]
                  ELSE row,
          emails |-> mail.delivered]
    ELSE [row |-> row, emails |-> 0]

Max(a, b) == IF a > b THEN a ELSE b

\* `sync-run field`: the field sync of every tournament of the window; the
\* payload of tournament t lists others[t] golfers beside those of its rows
SyncRunField(data, is_free_mode, others, mail) ==
    LET selected == get_upcoming_tournaments_window
        refreshed == refresh_statuses(selected)
        out == [t \in selected |->
                   sync_tournament_field(refreshed[t], field[t], data[t], is_free_mode)]
        failed == {t \in selected : Unusable(data[t]) \/ Raises(data[t])}
        others_after == [t \in Tournaments |->
                            IF t \in selected \ failed
                            THEN Max(field_others[t], others[t])
                            ELSE field_others[t]]
        told == [t \in selected |->
                    IF t \in failed
                    THEN [row |-> out[t].row, emails |-> 0]
                    ELSE notify_picks_open(out[t].row,
                                           Cardinality(out[t].field) + others_after[t],
                                           mail[t])]
    IN /\ tournament' = [t \in Tournaments |->
                            IF t \in selected THEN told[t].row ELSE tournament[t]]
       /\ field' = [t \in Tournaments |->
                       IF t \in selected THEN out[t].field ELSE field[t]]
       /\ field_others' = others_after
       /\ last' = [emails |-> [t \in selected |-> told[t].emails]]
                  @@ Synced("sync_tournament_field", selected, data, refreshed,
                            [t \in selected |->
                                out[t].returned
                                   + IF t \in failed THEN 0
                                     ELSE others_after[t] - field_others[t]])
       /\ UNCHANGED <<seconds, last_status_refresh, projection, request, now, users, player, results, picks, usage, total_points>>

\* TournamentSync.sync_live_leaderboard: 0 on an unusable payload; else the
\* status is derived and every listed player gets a Result row with the
\* status, the rounds and the projected earnings of the leaderboard row
sync_live_leaderboard_ClearsOnFailure(row, res, t, data) ==
    IF Unusable(data)
    THEN [row |-> row,
          results |-> [k \in Tournaments \X Players |->
                          IF k[1] = t THEN NoResult ELSE res[k]],
          returned |-> 0]
    ELSE [row |-> derive_status(row, data.status),
          results |-> [k \in Tournaments \X Players |->
                          IF k[1] = t /\ k[2] \in DOMAIN data.rows
                          THEN ResultOfRow(data.rows[k[2]])
                          ELSE res[k]],
          returned |-> Cardinality(DOMAIN data.rows)]

sync_live_leaderboard(row, res, t, data) ==
    IF Unusable(data)
    THEN [row |-> row, results |-> res, returned |-> 0]
    ELSE [row |-> derive_status(row, data.status),
          results |-> [k \in Tournaments \X Players |->
                          IF k[1] = t /\ k[2] \in DOMAIN data.rows
                          THEN ResultOfRow(data.rows[k[2]])
                          ELSE res[k]],
          returned |-> Cardinality(DOMAIN data.rows)]

RECURSIVE LiveLoop(_, _, _, _)
LiveLoop(acc, todo, refreshed, data) ==
    IF todo = {} THEN acc
    ELSE LET t == CHOOSE x \in todo : TRUE
             out == sync_live_leaderboard(refreshed[t], acc.results, t, data[t])
         IN LiveLoop([tournament |-> [acc.tournament EXCEPT ![t] = out.row],
                      results |-> out.results,
                      returned |-> [acc.returned EXCEPT ![t] = out.returned]],
                     todo \ {t}, refreshed, data)

\* `sync-run live`: the live leaderboard sync of every active tournament
SyncRunLive(data) ==
    LET selected == get_active_tournaments
        refreshed == refresh_statuses(selected)
        out == LiveLoop([tournament |-> refreshed, results |-> results,
                         returned |-> [t \in selected |-> 0]],
                        selected, refreshed, data)
    IN /\ tournament' = out.tournament
       /\ results' = out.results
       /\ last' = Synced("sync_live_leaderboard", selected, data, refreshed, out.returned)
       /\ UNCHANGED <<field_others, seconds, last_status_refresh, projection, request, now, users, player, field, picks, usage, total_points>>

\* TournamentSync.check_withdrawals (standard mode, or force): [] on an
\* unusable payload; else every listed player with status "wd" gets a Result
\* row with that status and the rounds played, its earnings untouched
check_withdrawals(res, t, data) ==
    IF Unusable(data)
    THEN [results |-> res, returned |-> 0]
    ELSE LET wd == {p \in DOMAIN data.rows : data.rows[p].status = "wd"}
         IN [results |-> [k \in Tournaments \X Players |->
                             IF k[1] = t /\ k[2] \in wd
                             THEN [res[k] EXCEPT !.exists = TRUE, !.status = "wd",
                                                 !.rounds_completed = data.rows[k[2]].rounds]
                             ELSE res[k]],
             returned |-> Cardinality(wd)]

RECURSIVE WithdrawalLoop(_, _, _)
WithdrawalLoop(acc, todo, data) ==
    IF todo = {} THEN acc
    ELSE LET t == CHOOSE x \in todo : TRUE
             out == check_withdrawals(acc.results, t, data[t])
         IN WithdrawalLoop([results |-> out.results,
                            returned |-> [acc.returned EXCEPT ![t] = out.returned]],
                           todo \ {t}, data)

\* `sync-run withdrawals`: the withdrawal check of every active tournament
SyncRunWithdrawals(data) ==
    LET selected == get_active_tournaments
        refreshed == refresh_statuses(selected)
        out == WithdrawalLoop([results |-> results, returned |-> [t \in selected |-> 0]],
                              selected, data)
    IN /\ tournament' = refreshed
       /\ results' = out.results
       /\ last' = Synced("check_withdrawals", selected, data, refreshed, out.returned)
       /\ UNCHANGED <<field_others, seconds, last_status_refresh, projection, request, now, users, player, field, picks, usage, total_points>>

RECURSIVE LiveWithWdLoop(_, _, _, _, _)
LiveWithWdLoop(acc, todo, refreshed, live, wd) ==
    IF todo = {} THEN acc
    ELSE LET t == CHOOSE x \in todo : TRUE
             leaderboard == sync_live_leaderboard(refreshed[t], acc.results, t, live[t])
             withdrawals == check_withdrawals(leaderboard.results, t, wd[t])
         IN LiveWithWdLoop([tournament |-> [acc.tournament EXCEPT ![t] = leaderboard.row],
                            results |-> withdrawals.results,
                            returned |-> [acc.returned EXCEPT ![t] = leaderboard.returned]],
                           todo \ {t}, refreshed, live, wd)

\* `sync-run live-with-wd`: for every active tournament of the list taken at
\* the start, the live leaderboard sync and then the forced withdrawal check,
\* each with its own leaderboard fetch
SyncRunLiveWithWd(live, wd) ==
    LET selected == get_active_tournaments
        refreshed == refresh_statuses(selected)
        out == LiveWithWdLoop([tournament |-> refreshed, results |-> results,
                               returned |-> [t \in selected |-> 0]],
                              selected, refreshed, live, wd)
    IN /\ tournament' = out.tournament
       /\ results' = out.results
       /\ last' = Synced("live-with-wd", selected, live, refreshed, out.returned)
       /\ UNCHANGED <<field_others, seconds, last_status_refresh, projection, request, now, users, player, field, picks, usage, total_points>>

-----------------------------------------------------------------------------
(* The clock *)

Tick ==
    /\ now < MaxTime
    /\ now' = now + 1
    /\ last' = Idle
    /\ UNCHANGED <<field_others, seconds, last_status_refresh, projection, request, users, player, tournament, field, results, picks, usage, total_points>>

-----------------------------------------------------------------------------
(* app.py: the before_request hook refresh_tournament_states.  The wall     *)
(* clock of the web process is `now` ticks of 12 hours plus `seconds`.      *)

\* app.config.get("STATUS_REFRESH_INTERVAL_SECONDS", 300)
STATUS_REFRESH_INTERVAL_SECONDS == 300

TickSeconds == 12 * 3600

\* The clock is read every third of the interval: for two intervals after a
\* tick, and again from two thirds of the interval before the next one
WaitSeconds == STATUS_REFRESH_INTERVAL_SECONDS \div 3
MaxSeconds == 2 * STATUS_REFRESH_INTERVAL_SECONDS
LateSeconds == TickSeconds - 2 * WaitSeconds

\* request.endpoint: None for an unrouted URL, "static", or a view
Endpoints == {"None", "static", "index"}

\* get_current_time()
CurrentTime == [now |-> now, seconds |-> seconds]

\* (now - last_refresh).total_seconds()
total_seconds(later, earlier) ==
    (later.now - earlier.now) * TickSeconds + (later.seconds - earlier.seconds)

\* `last_refresh and (now - last_refresh).total_seconds() < refresh_interval`
is_throttled_Inclusive(last_refresh) ==
    /\ last_refresh # NoRefresh
    /\ total_seconds(CurrentTime, last_refresh) <= STATUS_REFRESH_INTERVAL_SECONDS

is_throttled(last_refresh) ==
    /\ last_refresh # NoRefresh
    /\ total_seconds(CurrentTime, last_refresh) < STATUS_REFRESH_INTERVAL_SECONDS

\* What the hook leaves behind: the endpoint it ran for, the age in seconds
\* of the recorded refresh if it looked at one, and whether it went as far as
\* the query
Hooked(endpoint, queried) ==
    [op |-> "refresh_tournament_states", t |-> "none", n |-> 0, processed |-> 0,
     skipped |-> <<>>, resolved |-> {}, raised |-> FALSE,
     endpoint |-> endpoint,
     elapsed |-> IF endpoint \in {"None", "static"} \/ last_status_refresh = NoRefresh
                 THEN NULL
                 ELSE total_seconds(CurrentTime, last_status_refresh),
     queried |-> queried]

\* refresh_tournament_states() before a request for `endpoint`
BeforeRequest(endpoint) ==
    IF endpoint = "None" \/ endpoint \in {"static"}
    THEN /\ last' = Hooked(endpoint, FALSE)
         /\ UNCHANGED <<tournament, last_status_refresh>>
         /\ UNCHANGED <<field_others, seconds, projection, request, now, users, player, field, results, picks, usage, total_points>>
    ELSE IF is_throttled(last_status_refresh)
    THEN /\ last' = Hooked(endpoint, FALSE)
         /\ UNCHANGED <<tournament, last_status_refresh>>
         /\ UNCHANGED <<field_others, seconds, projection, request, now, users, player, field, results, picks, usage, total_points>>
    ELSE /\ tournament' =
               refresh_statuses({t \in Tournaments :
                                    /\ tournament[t].exists
                                    /\ tournament[t].season_year = SEASON_YEAR
                                    /\ tournament[t].status \in {"upcoming", "active"}})
         /\ last_status_refresh' = CurrentTime
         /\ last' = Hooked(endpoint, TRUE)
         /\ UNCHANGED <<field_others, seconds, projection, request, now, users, player, field, results, picks, usage, total_points>>

\* The wall clock between two requests: a third of the interval later,
\* which may be past the next tick, or shortly before the next tick
Wait ==
    /\ \/ /\ seconds + WaitSeconds <= MaxSeconds \/ seconds >= LateSeconds
          /\ seconds + WaitSeconds < TickSeconds
          /\ seconds' = seconds + WaitSeconds
          /\ now' = now
       \/ /\ seconds + WaitSeconds = TickSeconds
          /\ now < MaxTime
          /\ seconds' = 0
          /\ now' = now + 1
       \/ /\ seconds <= MaxSeconds
          /\ seconds' = LateSeconds
          /\ now' = now
    /\ last' = Idle
    /\ UNCHANGED <<field_others, last_status_refresh, projection, request, users, player, tournament, field, results, picks, usage, total_points>>

-----------------------------------------------------------------------------
(* sync_api.py: SlashGolfAPI._make_request, one step per requests.get call *)
(* and per time.sleep call                                                  *)

MaxRetries == 5

RetryableCodes == {429, 500, 502, 503, 504}

TerminalCodes == {401, 404}

\* What one requests.get call gives: a response with its status code and
\* whether its body decodes as JSON, or a requests.RequestException (logged
\* with status 0)
RequestException == [raised |-> TRUE, status_code |-> 0, body_is_json |-> FALSE]

Responses ==
    {[raised |-> FALSE, status_code |-> c, body_is_json |-> TRUE] :
        c \in {200} \cup RetryableCodes \cup TerminalCodes}
    \cup {[raised |-> FALSE, status_code |-> 200, body_is_json |-> FALSE],
          RequestException}

\* response.json() on a body that does not decode raises
\* requests.exceptions.JSONDecodeError: a RequestException in requests 2.27
\* and later, a plain ValueError before
JsonErrors == {"RequestException", "ValueError"}

\* No call under way
NoRequest ==
    [pc |-> "none", retries |-> 0, attempt |-> 0, responses |-> <<>>, slept |-> 0,
     returned |-> "nothing"]

\* _make_request(endpoint, params, retries) entered: range(1, retries + 1)
\* starts at attempt 1
MakeRequest(retries) ==
    [pc |-> "get", retries |-> retries, attempt |-> 1, responses |-> <<>>, slept |-> 0,
     returned |-> "nothing"]

is_retryable_Always(status_code) == TRUE

is_retryable(status_code) == status_code \in RetryableCodes

\* The end of one iteration that neither returned nor broke out of the loop:
\* `if attempt < retries:` sleep, then the next iteration
EndOfIteration(response) ==
    IF request.attempt < request.retries
    THEN [request EXCEPT !.pc = "sleep", !.responses = Append(@, response)]
    ELSE [request EXCEPT !.attempt = @ + 1, !.responses = Append(@, response)]

\* One iteration of the loop: requests.get answers `response`
Get(response, json_error) ==
    /\ request.pc = "get"
    /\ request.attempt <= request.retries
    /\ request' =
          IF response.raised THEN EndOfIteration(response)
          ELSE IF response.status_code = 200
               THEN IF response.body_is_json
                    THEN [request EXCEPT !.pc = "done", !.returned = "json",
                                         !.responses = Append(@, response)]
                    ELSE IF json_error = "RequestException"
                         THEN EndOfIteration(response)
                         ELSE [request EXCEPT !.pc = "done", !.returned = "ValueError",
                                              !.responses = Append(@, response)]
               ELSE IF ~is_retryable(response.status_code)
                    THEN [request EXCEPT !.pc = "done", !.returned = "None",
                                         !.responses = Append(@, response)]
                    ELSE EndOfIteration(response)
    /\ UNCHANGED <<now, users, player, tournament, field, results, picks, usage,
                   total_points, last, projection, seconds, last_status_refresh,
                   field_others>>

\* time.sleep(max(0.5, sleep_for)), then the next iteration
Sleep ==
    /\ request.pc = "sleep"
    /\ request' = [request EXCEPT !.pc = "get", !.attempt = @ + 1, !.slept = @ + 1]
    /\ UNCHANGED <<now, users, player, tournament, field, results, picks, usage,
                   total_points, last, projection, seconds, last_status_refresh,
                   field_others>>

\* The loop is over: "Exhausted retries", return None
Exhausted ==
    /\ request.pc = "get"
    /\ request.attempt > request.retries
    /\ request' = [request EXCEPT !.pc = "done", !.returned = "None"]
    /\ UNCHANGED <<now, users, player, tournament, field, results, picks, usage,
                   total_points, last, projection, seconds, last_status_refresh,
                   field_others>>

-----------------------------------------------------------------------------
(* Python float arithmetic (IEEE 754 binary64, round to nearest, ties to    *)
(* even) on non-negative values, as calculate_projected_earnings uses it.   *)
(* A natural number of any size is a sequence of limbs in base 2^14, least  *)
(* significant first, without leading zero limbs; a float is m * 2^e with m *)
(* such a natural of at most 53 bits.                                       *)

LimbBits == 14

LimbBase == 16384

MantissaBits == 53

RECURSIVE Pow2(_)
Pow2(k) == IF k = 0 THEN 1 ELSE 2 * Pow2(k - 1)

RECURSIVE BitLength(_)
BitLength(n) == IF n = 0 THEN 0 ELSE 1 + BitLength(n \div 2)

RECURSIVE Normalized(_)
Normalized(a) ==
    IF a = <<>> THEN a
    ELSE IF a[Len(a)] = 0 THEN Normalized(SubSeq(a, 1, Len(a) - 1))
    ELSE a

RECURSIVE Limbs(_)
Limbs(n) == IF n = 0 THEN <<>> ELSE <<n % LimbBase>> \o Limbs(n \div LimbBase)

RECURSIVE NatOf(_)
NatOf(a) == IF a = <<>> THEN 0 ELSE a[1] + LimbBase * NatOf(Tail(a))

LimbAt(a, i) == IF i <= Len(a) THEN a[i] ELSE 0

RECURSIVE AddFrom(_, _, _, _)
AddFrom(a, b, i, carry) ==
    IF i > Len(a) /\ i > Len(b)
    THEN IF carry = 0 THEN <<>> ELSE <<carry>>
    ELSE LET sum == LimbAt(a, i) + LimbAt(b, i) + carry
         IN <<sum % LimbBase>> \o AddFrom(a, b, i + 1, sum \div LimbBase)

NatAdd(a, b) == AddFrom(a, b, 1, 0)

\* a - b for a >= b
RECURSIVE SubFrom(_, _, _, _)
SubFrom(a, b, i, borrow) ==
    IF i > Len(a) THEN <<>>
    ELSE LET diff == LimbAt(a, i) - LimbAt(b, i) - borrow
         IN IF diff < 0
            THEN <<diff + LimbBase>> \o SubFrom(a, b, i + 1, 1)
            ELSE <<diff>> \o SubFrom(a, b, i + 1, 0)

NatSub(a, b) == Normalized(SubFrom(a, b, 1, 0))

\* a * n for 0 <= n < 2^14
RECURSIVE MulLimbFrom(_, _, _, _)
MulLimbFrom(a, n, i, carry) ==
    IF i > Len(a)
    THEN IF carry = 0 THEN <<>> ELSE <<carry>>
    ELSE LET prod == a[i] * n + carry
         IN <<prod % LimbBase>> \o MulLimbFrom(a, n, i + 1, prod \div LimbBase)

NatMulLimb(a, n) == Normalized(MulLimbFrom(a, n, 1, 0))

RECURSIVE NatMul(_, _)
NatMul(a, b) ==
    IF b = <<>> \/ a = <<>> THEN <<>>
    ELSE NatAdd(NatMulLimb(a, b[1]),
                IF Len(b) = 1 THEN <<>> ELSE <<0>> \o NatMul(a, Tail(b)))

\* Quotient and remainder of a by n, for 0 < n < 2^17, from the top limb down
RECURSIVE DivFrom(_, _, _, _)
DivFrom(a, n, i, rem) ==
    IF i = 0 THEN [quot |-> <<>>, rem |-> rem]
    ELSE LET cur == rem * LimbBase + a[i]
             rest == DivFrom(a, n, i - 1, cur % n)
         IN [quot |-> rest.quot \o <<cur \div n>>, rem |-> rest.rem]

NatDivMod(a, n) ==
    LET r == DivFrom(a, n, Len(a), 0)
    IN [quot |-> Normalized(r.quot), rem |-> r.rem]

NatBitLength(a) ==
    IF a = <<>> THEN 0 ELSE (Len(a) - 1) * LimbBits + BitLength(a[Len(a)])

Zeros(k) == [i \in 1..k |-> 0]

ShiftLeft(a, bits) ==
    IF a = <<>> THEN a
    ELSE Zeros(bits \div LimbBits) \o NatMulLimb(a, Pow2(bits % LimbBits))

\* a shifted right, and whether a one was shifted out
ShiftRight(a, bits) ==
    LET whole == bits \div LimbBits
        dropped == SubSeq(a, 1, Min(whole, Len(a)))
        kept == SubSeq(a, whole + 1, Len(a))
        r == NatDivMod(kept, Pow2(bits % LimbBits))
    IN [quot |-> r.quot,
        sticky |-> r.rem # 0 \/ \E i \in DOMAIN dropped : dropped[i] # 0]

IsOdd(a) == a # <<>> /\ a[1] % 2 = 1

FloatZero == [m |-> <<>>, e |-> 0]

\* The float nearest to m * 2^e (plus less than one unit of m when `sticky`):
\* round to nearest, ties to even
RoundToFloat(m, e, sticky) ==
    LET excess == NatBitLength(m) - MantissaBits
    IN IF excess <= 0 THEN [m |-> m, e |-> e]
       ELSE LET upper == ShiftRight(m, excess - 1)
                half == IsOdd(upper.quot)
                kept == ShiftRight(upper.quot, 1).quot
                up == half /\ (upper.sticky \/ sticky \/ IsOdd(kept))
            IN [m |-> IF up THEN NatAdd(kept, <<1>>) ELSE kept, e |-> e + excess]

\* float(n) for an int below 2^31
FloatOfInt(n) == [m |-> Limbs(n), e |-> 0]

\* x + y
FloatAdd(x, y) ==
    IF x.m = <<>> THEN y
    ELSE IF y.m = <<>> THEN x
    ELSE LET e == Min(x.e, y.e)
         IN RoundToFloat(NatAdd(ShiftLeft(x.m, x.e - e), ShiftLeft(y.m, y.e - e)), e, FALSE)

\* x - y for x >= y
FloatSub(x, y) ==
    IF y.m = <<>> THEN x
    ELSE LET e == Min(x.e, y.e)
         IN RoundToFloat(NatSub(ShiftLeft(x.m, x.e - e), ShiftLeft(y.m, y.e - e)), e, FALSE)

\* x * y
FloatMul(x, y) ==
    IF x.m = <<>> \/ y.m = <<>> THEN FloatZero
    ELSE RoundToFloat(NatMul(x.m, y.m), x.e + y.e, FALSE)

\* x / n for an int 0 < n < 2^17: the quotient is taken with 72 extra bits,
\* the remainder is the sticky bit
FloatDivInt(x, n) ==
    IF x.m = <<>> THEN FloatZero
    ELSE LET r == NatDivMod(ShiftLeft(x.m, 72), n)
         IN RoundToFloat(r.quot, x.e - 72, r.rem # 0)

\* The float of a decimal literal digits / divisor, divisor a power of ten
FloatLiteral(digits, divisor) == FloatDivInt(FloatOfInt(digits), divisor)

\* int(x): truncation
IntOfFloat(x) ==
    IF x.e >= 0 THEN NatOf(ShiftLeft(x.m, x.e))
    ELSE NatOf(ShiftRight(x.m, 0 - x.e).quot)

-----------------------------------------------------------------------------
(* sync_api.py: calculate_projected_earnings. A position string is the      *)
(* sequence of its characters.                                              *)

\* PAYOUT_PERCENTAGES, ranks 1 to 65, each literal in units of 0.0001
PAYOUT_PERCENTAGES ==
    <<1800, 1090, 690, 490, 410, 363, 338, 313, 293, 273,
      253, 233, 213, 193, 183, 173, 163, 153, 143, 133,
      123, 113, 105, 97, 89, 81, 78, 75, 72, 69,
      66, 63, 60, 57, 55, 52, 50, 48, 46, 44,
      42, 40, 38, 36, 34, 32, 30, 28, 27, 26,
      25, 25, 24, 24, 24, 23, 23, 23, 23, 23,
      22, 22, 22, 22, 22>>

Digits == <<"0", "1", "2", "3", "4", "5", "6", "7", "8", "9">>

DigitValue(c) == (CHOOSE i \in DOMAIN Digits : Digits[i] = c) - 1

\* str.upper(), on the letters the position strings are made of
UpperChar(c) ==
    CASE c = "t" -> "T" [] c = "c" -> "C" [] c = "u" -> "U" [] c = "w" -> "W"
      [] c = "d" -> "D" [] c = "q" -> "Q" [] c = "e" -> "E" [] OTHER -> c

Upper(str) == [i \in DOMAIN str |-> UpperChar(str[i])]

\* int(str) raises ValueError unless str is a non-empty run of digits
IsInt(str) == str # <<>> /\ \A i \in DOMAIN str : \E d \in DOMAIN Digits : Digits[d] = str[i]

RECURSIVE IntOf(_)
IntOf(str) ==
    IF str = <<>> THEN 0
    ELSE 10 * IntOf(SubSeq(str, 1, Len(str) - 1)) + DigitValue(str[Len(str)])

NonPaying == {<<"C", "U", "T">>, <<"W", "D">>, <<"D", "Q">>, <<"-">>, <<>>}

\* The share of the purse of one rank, as the float the loop adds
RankPercentage(pos) ==
    IF pos <= 65
    THEN IF pos \in DOMAIN PAYOUT_PERCENTAGES
         THEN FloatLiteral(PAYOUT_PERCENTAGES[pos], 10000)
         ELSE FloatZero
    ELSE IF pos <= 80
         THEN FloatSub(FloatLiteral(213, 100000),
                       FloatMul(FloatOfInt(pos - 66), FloatLiteral(2, 100000)))
         ELSE FloatZero

\* total_percentage after the iterations i = 0 .. count - 1 of the loop
RECURSIVE TotalPercentage(_, _)
TotalPercentage(base_position, count) ==
    IF count = 0 THEN FloatZero
    ELSE FloatAdd(TotalPercentage(base_position, count - 1),
                  RankPercentage(base_position + count - 1))

calculate_projected_earnings(position_str, purse, all_positions) ==
    IF position_str = <<>> \/ Upper(position_str) \in NonPaying THEN 0
    ELSE IF purse <= 0 THEN 0
    ELSE LET position_upper == Upper(position_str)
             is_tied == position_upper[1] = "T"
             number == IF is_tied THEN Tail(position_upper) ELSE position_upper
         IN IF ~IsInt(number) THEN 0
            ELSE LET base_position == IntOf(number)
                     counted == Cardinality({i \in DOMAIN all_positions :
                                               /\ all_positions[i] # <<>>
                                               /\ Upper(all_positions[i]) = position_upper})
                     tie_count == IF counted = 0 THEN 1 ELSE counted
                     total_percentage == TotalPercentage(base_position, tie_count)
                     player_percentage == FloatDivInt(total_percentage, tie_count)
                 IN IF base_position > 80 THEN 0
                    ELSE IntOfFloat(FloatMul(FloatOfInt(purse), player_percentage))

\* No call under way
NoProjection ==
    [pc |-> "none", position_str |-> <<>>, purse |-> 0, all_positions |-> <<>>,
     returned |-> NULL]

\* calculate_projected_earnings(position_str, purse, all_positions) returns
CalculateProjectedEarnings ==
    /\ projection.pc = "call"
    /\ projection' =
          [projection EXCEPT
              !.pc = "done",
              !.returned = calculate_projected_earnings(projection.position_str,
                                                        projection.purse,
                                                        projection.all_positions)]
    /\ UNCHANGED <<now, users, player, tournament, field, results, picks, usage,
                   total_points, last, request, seconds, last_status_refresh,
                   field_others>>

-----------------------------------------------------------------------------
(* The database a run starts from: the schedule is imported and the field  *)
(* of each imported tournament is synced; nothing is picked or played yet. *)

ScheduledTournament(start, end, team) ==
    [exists |-> TRUE, season_year |-> SEASON_YEAR, start_date |-> start, end_date |-> end,
     pick_deadline |-> start, is_team_event |-> team, status |-> "upcoming",
     results_finalized |-> FALSE, picks_open_notified |-> FALSE]

EmptyTables ==
    /\ now = 0
    /\ player = [p \in Players |-> [is_amateur |-> FALSE]]
    /\ results = [k \in Tournaments \X Players |-> NoResult]
    /\ picks = [k \in Users \X Tournaments |-> NoPickRow]
    /\ usage = [k \in UsageKeys |-> 0]
    /\ total_points = [u \in Users |-> 0]
    /\ last = Idle
    /\ request = NoRequest
    /\ projection = NoProjection
    /\ seconds = 0
    /\ field_others = [t \in Tournaments |-> 0]
    /\ last_status_refresh = NoRefresh

\* One tournament, two contestants, a field of two golfers
InitBatch ==
    /\ EmptyTables
    /\ users = {"u1", "u2"}
    /\ \E team \in BOOLEAN :
          tournament = [t \in Tournaments |->
                           IF t = "t1" THEN ScheduledTournament(1, 2, team)
                           ELSE NoTournament]
    /\ field = [t \in Tournaments |-> IF t = "t1" THEN {"p1", "p2"} ELSE {}]

\* Two tournaments of the season, one contestant, three golfers of whom one
\* does not enter the second tournament
InitSeason ==
    /\ EmptyTables
    /\ users = {"u1"}
    /\ tournament = [t \in Tournaments |->
                        IF t = "t1" THEN ScheduledTournament(0, 1, FALSE)
                        ELSE ScheduledTournament(1, 2, FALSE)]
    /\ field = [t \in Tournaments |-> IF t = "t1" THEN Players ELSE {"p1", "p2"}]

\* Earnings payloads of the one-tournament runs: at most one row, of a
\* golfer who withdrew in round 1, withdrew after round 2, or was paid
BatchRowValues ==
    {[status |-> "wd", rounds |-> 1, earnings |-> 0],
     [status |-> "wd", rounds |-> 2, earnings |-> 0],
     [status |-> "complete", rounds |-> 4, earnings |-> 3]}

BatchRowsets(t) ==
    UNION {[S -> BatchRowValues] : S \in {X \in SUBSET field[t] : Cardinality(X) <= 1}}

\* Earnings payloads of the season runs: the whole field, everybody paid or
\* p1 withdrawn during the first round
SeasonRowsets(t) ==
    {[p \in field[t] |-> [status |-> "complete", rounds |-> 4, earnings |-> 3]],
     [p \in field[t] |-> IF p = "p1"
                         THEN [status |-> "wd", rounds |-> 1, earnings |-> 0]
                         ELSE [status |-> "complete", rounds |-> 4, earnings |-> 3]]}

Submit == \E u \in Users, t \in Tournaments, p \in Players, b \in Players : MakePick(u, t, p, b)

Override ==
    \E u \in Users, t \in Tournaments, p \in Players, b \in Players :
        AdminOverridePick(u, t, p, b)

ResolveApp == \E t \in Tournaments : AdminProcessResults(t)

ResolveSync == \E t \in Tournaments : ProcessTournamentPicks(t)

ResultsBatch ==
    \E t \in Tournaments : \E answer \in Answers(t, BatchRowsets(t)) :
        SyncTournamentResults(t, answer)

ResultsSeason ==
    \E t \in Tournaments : \E answer \in Answers(t, SeasonRowsets(t)) :
        SyncTournamentResults(t, answer)

NextBatch == Submit \/ Override \/ ResultsBatch \/ ResolveApp \/ ResolveSync \/ Tick

NextSeason == Submit \/ Override \/ ResultsSeason \/ ResolveApp \/ ResolveSync \/ Tick

SpecBatch == InitBatch /\ [][NextBatch]_vars

SpecSeason == InitSeason /\ [][NextSeason]_vars

-----------------------------------------------------------------------------
(* The life of one tournament: imported by the schedule sync, its field    *)
(* and deadline synced, picked, played, finalized and resolved.            *)

\* Event status of a leaderboard payload, lower-cased: absent, in progress,
\* official
HintValues == {"", "in progress", "official"}

TeeTimes == {NULL} \cup (0..MaxTime)

\* Leaderboard rows: both golfers playing, or p1 withdrawn in round 1
LeaderboardRowsets ==
    {[p \in {"p1", "p2"} |-> [status |-> "active", rounds |-> 1, earnings |-> 2]],
     [p \in {"p1", "p2"} |-> IF p = "p1"
                             THEN [status |-> "wd", rounds |-> 1, earnings |-> 0]
                             ELSE [status |-> "active", rounds |-> 1, earnings |-> 2]]}

LeaderboardPayloads(tee_times) ==
    {NoData, NoLeaderboardRows} \cup
    {[fetched |-> TRUE, has_rows |-> TRUE, status |-> h, tee_time |-> tt, rows |-> r] :
        h \in HintValues, tt \in tee_times, r \in LeaderboardRowsets}

\* Final earnings payload: both golfers paid
FinalRowsets(t) ==
    {[p \in field[t] |-> [status |-> "complete", rounds |-> 4, earnings |-> 3]]}

InitLifecycle ==
    /\ EmptyTables
    /\ users = {"u1"}
    /\ tournament = [t \in Tournaments |->
                        IF t = "t1"
                        THEN [ScheduledTournament(1, 2, FALSE) EXCEPT !.pick_deadline = NULL]
                        ELSE NoTournament]
    /\ field = [t \in Tournaments |-> {}]

Refresh == RefreshTournamentStates

FieldSync ==
    \E is_free_mode \in BOOLEAN :
       \E data \in [get_upcoming_tournaments_window ->
                        LeaderboardPayloads(TeeTimes) \cup {Malformed}] :
          SyncRunField(data, is_free_mode,
                       [t \in get_upcoming_tournaments_window |-> 0],
                       [t \in get_upcoming_tournaments_window |-> NoMail])

LiveSync ==
    \E data \in [get_active_tournaments -> LeaderboardPayloads({NULL})] : SyncRunLive(data)

WithdrawalCheck ==
    \E data \in [get_active_tournaments -> LeaderboardPayloads({NULL})] :
        SyncRunWithdrawals(data)

LiveWithWd ==
    \E live \in [get_active_tournaments -> LeaderboardPayloads({NULL})] :
       \E wd \in [get_active_tournaments -> LeaderboardPayloads({NULL})] :
          SyncRunLiveWithWd(live, wd)

ResultsLifecycle ==
    \E t \in Tournaments : \E answer \in AnswersAndFailures(t, FinalRowsets(t)) :
        SyncTournamentResults(t, answer)

NextLifecycle ==
    \/ Submit
    \/ Override
    \/ Refresh
    \/ FieldSync
    \/ LiveSync
    \/ WithdrawalCheck
    \/ LiveWithWd
    \/ ResultsLifecycle
    \/ ResolveApp
    \/ ResolveSync
    \/ Tick

SpecLifecycle == InitLifecycle /\ [][NextLifecycle]_vars

-----------------------------------------------------------------------------
(* The web process serving requests while the clock runs: a tournament of  *)
(* the season whose field is synced or not, beside a second one of this    *)
(* season or of the next, imported early.                                  *)

InitRefresh ==
    /\ EmptyTables
    /\ users = {"u1"}
    /\ \E start \in 0..MaxTime : \E deadline \in {NULL, start} : \E next_season \in BOOLEAN :
          tournament = [t \in Tournaments |->
                           IF t = "t1"
                           THEN [ScheduledTournament(start, start + 1, FALSE)
                                    EXCEPT !.pick_deadline = deadline]
                           ELSE IF next_season
                           THEN [ScheduledTournament(1, 2, FALSE)
                                    EXCEPT !.season_year = SEASON_YEAR + 1]
                           ELSE ScheduledTournament(1, 2, FALSE)]
    /\ field = [t \in Tournaments |-> {}]

Request == \E endpoint \in Endpoints : BeforeRequest(endpoint)

NextRefresh == Request \/ Wait \/ Tick

SpecRefresh == InitRefresh /\ [][NextRefresh]_vars

-----------------------------------------------------------------------------
(* The field syncs of one tournament as its field fills up: each payload   *)
(* lists the two golfers of the league's picks and 0, 47 or 48 others, and *)
(* the mail server delivers to none, one or both contestants.              *)

OtherCounts == {0, MIN_FIELD_SIZE - 3, MIN_FIELD_SIZE - 2}

MailOutcomes ==
    {[delivered |-> n, raises |-> r] : n \in 0..Cardinality(Users), r \in BOOLEAN}

InitNotify ==
    /\ EmptyTables
    /\ users = Users
    /\ tournament = [t \in Tournaments |->
                        IF t = "t1"
                        THEN [ScheduledTournament(1, 2, FALSE) EXCEPT !.pick_deadline = NULL]
                        ELSE NoTournament]
    /\ field = [t \in Tournaments |-> {}]

FieldSyncNotify ==
    \E is_free_mode \in BOOLEAN :
       \E data \in [get_upcoming_tournaments_window ->
                        LeaderboardPayloads(TeeTimes) \cup {Malformed}] :
          \E others \in [get_upcoming_tournaments_window -> OtherCounts] :
             \E mail \in [get_upcoming_tournaments_window -> MailOutcomes] :
                SyncRunField(data, is_free_mode, others, mail)

NextNotify == FieldSyncNotify \/ Tick

SpecNotify == InitNotify /\ [][NextNotify]_vars

-----------------------------------------------------------------------------
(* One _make_request call with any number of retries up to MaxRetries, the *)
(* provider answering each attempt with any response.                       *)

InitRequest ==
    /\ now = 0
    /\ users = {}
    /\ player = [p \in Players |-> [is_amateur |-> FALSE]]
    /\ tournament = [t \in Tournaments |-> NoTournament]
    /\ field = [t \in Tournaments |-> {}]
    /\ results = [k \in Tournaments \X Players |-> NoResult]
    /\ picks = [k \in Users \X Tournaments |-> NoPickRow]
    /\ usage = [k \in UsageKeys |-> 0]
    /\ total_points = [u \in Users |-> 0]
    /\ last = Idle
    /\ \E retries \in 0..MaxRetries : request = MakeRequest(retries)
    /\ projection = NoProjection
    /\ seconds = 0
    /\ field_others = [t \in Tournaments |-> 0]
    /\ last_status_refresh = NoRefresh

Attempt == \E response \in Responses, json_error \in JsonErrors : Get(response, json_error)

NextRequest ==
    \/ Attempt
    \/ Sleep
    \/ Exhausted

SpecRequest == InitRequest /\ [][NextRequest]_vars

\* The interpreter runs the call on: each step that can be taken is taken
SpecRequestFair == SpecRequest /\ WF_vars(NextRequest)

-----------------------------------------------------------------------------
(* One calculate_projected_earnings call: a purse, a leaderboard on which   *)
(* up to MaxTie entries share one position string of a rank up to MaxRank,  *)
(* beside a player who missed the cut, and the position asked for.          *)

MaxRank == 82

MaxTie == 3

\* No purse, a small purse, and the purse of PURSE_ESTIMATES['Sony Open in Hawaii']
Purses == {0, 1250, 9100000}

RECURSIVE DigitsOf(_)
DigitsOf(n) ==
    IF n < 10 THEN <<Digits[n + 1]>>
    ELSE DigitsOf(n \div 10) \o <<Digits[(n % 10) + 1]>>

\* "7", "T7", and the positions that are no rank
PositionStrings ==
    {prefix \o DigitsOf(rank) : prefix \in {<<>>, <<"T">>}, rank \in 1..MaxRank}
    \cup {<<"C", "U", "T">>, <<"W", "D">>, <<"E">>}

InitPayout ==
    /\ now = 0
    /\ users = {}
    /\ player = [p \in Players |-> [is_amateur |-> FALSE]]
    /\ tournament = [t \in Tournaments |-> NoTournament]
    /\ field = [t \in Tournaments |-> {}]
    /\ results = [k \in Tournaments \X Players |-> NoResult]
    /\ picks = [k \in Users \X Tournaments |-> NoPickRow]
    /\ usage = [k \in UsageKeys |-> 0]
    /\ total_points = [u \in Users |-> 0]
    /\ last = Idle
    /\ request = NoRequest
    /\ \E purse \in Purses, position_str \in PositionStrings, shared \in 1..MaxTie :
          projection = [pc |-> "call", position_str |-> position_str, purse |-> purse,
                        all_positions |-> [i \in 1..shared |-> position_str]
                                          \o <<<<"C", "U", "T">>>>,
                        returned |-> NULL]
    /\ seconds = 0
    /\ field_others = [t \in Tournaments |-> 0]
    /\ last_status_refresh = NoRefresh

NextPayout == CalculateProjectedEarnings

SpecPayout == InitPayout /\ [][NextPayout]_vars

-----------------------------------------------------------------------------
(* The decision procedure over every pair of Result rows: one contestant   *)
(* holds the pick (p1, p2) of a finished tournament, team event or not,    *)
(* and the two golfers have any Result row the sync can write, or none.    *)

ResultStatuses == {"complete", "cut", "wd", "dq"}

MaxRounds == 4

EarningsValues == {0, 15000, 15001}

ResultRows ==
    {NoResult} \cup
    {[exists |-> TRUE, status |-> st, rounds_completed |-> r, earnings |-> e] :
        st \in ResultStatuses, r \in 0..MaxRounds, e \in EarningsValues}

InitResolve ==
    /\ now = MaxTime
    /\ users = {"u1"}
    /\ player = [p \in Players |-> [is_amateur |-> FALSE]]
    /\ \E team \in BOOLEAN :
          tournament = [t \in Tournaments |->
                           IF t = "t1"
                           THEN [ScheduledTournament(0, 1, team) EXCEPT
                                    !.status = "complete", !.results_finalized = TRUE]
                           ELSE NoTournament]
    /\ field = [t \in Tournaments |-> IF t = "t1" THEN {"p1", "p2"} ELSE {}]
    /\ \E r1 \in ResultRows, r2 \in ResultRows :
          results = [k \in Tournaments \X Players |->
                        IF k = <<"t1", "p1">> THEN r1
                        ELSE IF k = <<"t1", "p2">> THEN r2
                        ELSE NoResult]
    /\ picks = [k \in Users \X Tournaments |->
                   IF k = <<"u1", "t1">> THEN NewPick("p1", "p2") ELSE NoPickRow]
    /\ usage = [k \in UsageKeys |-> 0]
    /\ total_points = [u \in Users |-> 0]
    /\ last = Idle
    /\ request = NoRequest
    /\ projection = NoProjection
    /\ seconds = 0
    /\ field_others = [t \in Tournaments |-> 0]
    /\ last_status_refresh = NoRefresh

NextResolve == ResolveApp \/ ResolveSync

SpecResolve == InitResolve /\ [][NextResolve]_vars

-----------------------------------------------------------------------------
(* What the claims speak of *)

BatchOps == {"process_tournament_results", "process_tournament_picks"}

PickTuple(pick) ==
    <<pick.active_player_id, pick.points_earned, pick.primary_used, pick.backup_used>>

\* The season-usage rows of one contestant
UsageOf(usg, u) == [p \in Players |-> usg[<<u, p, SEASON_YEAR>>]]

\* Resolved: the active golfer and the points are both recorded
Resolved(pick) ==
    /\ pick.exists
    /\ pick.active_player_id # NoPlayer
    /\ pick.points_earned # NULL

PrimaryResult(u, t) == results[<<t, picks[<<u, t>>].primary_player_id>>]

BackupResult(u, t) == results[<<t, picks[<<u, t>>].backup_player_id>>]

\* The Results the decision procedure needs for the pick are there
RequiredResultsPresent(u, t) ==
    /\ PrimaryResult(u, t).exists
    /\ wd_early(PrimaryResult(u, t)) => BackupResult(u, t).exists

-----------------------------------------------------------------------------
\* C1: a run of process_tournament_results that directly follows a run on the
\* same tournament (picks and results untouched in between) resolves the same
\* picks and leaves every pick of the tournament with the same (active
\* golfer, points, primary_used, backup_used); after any run, each pick it
\* resolved has exactly one usage row for (contestant, active golfer, season).
C1_AppBatchIdempotent ==
    [][last'.op = "process_tournament_results" =>
         LET t == last'.t
         IN /\ \A u \in last'.resolved :
                  usage'[<<u, picks'[<<u, t>>].active_player_id,
                           tournament[t].season_year>>] = 1
            /\ last'.n >= 2 =>
                  /\ last'.resolved = last.resolved
                  /\ \A u \in PickOwners(t) :
                        PickTuple(picks'[<<u, t>>]) = PickTuple(picks[<<u, t>>])
                  /\ usage' = usage]_vars

\* C1 witness: a second consecutive run has resolved a pick again
C1_Witness ==
    /\ last.op = "process_tournament_results"
    /\ last.n >= 2
    /\ last.resolved # {}

\* C2: a run of process_tournament_picks that directly follows a run on the
\* same tournament succeeds for every pick the first run resolved, leaves the
\* same (active golfer, points, flags) and exactly one usage row per resolved
\* pick.
C2_SyncBatchIdempotent ==
    [][(last'.op = "process_tournament_picks" /\ last'.n >= 2) =>
         LET t == last'.t
         IN /\ ~last'.raised
            /\ last.resolved \subseteq last'.resolved
            /\ \A u \in PickOwners(t) :
                  PickTuple(picks'[<<u, t>>]) = PickTuple(picks[<<u, t>>])
            /\ \A u \in last'.resolved :
                  usage'[<<u, picks'[<<u, t>>].active_player_id,
                           tournament[t].season_year>>] = 1]_vars

\* C3: every pick with an active golfer has a usage row for (its contestant,
\* its active golfer, the season), whatever the order of the batch runs.
C3_ResolvedPickKeepsUsage ==
    \A u \in Users, t \in Tournaments :
        (picks[<<u, t>>].exists /\ picks[<<u, t>>].active_player_id # NoPlayer) =>
            usage[<<u, picks[<<u, t>>].active_player_id, tournament[t].season_year>>] >= 1

\* C4: no contestant has two resolved picks of the season with the same active
\* golfer.
C4_GolferOncePerSeason ==
    \A u \in Users, t1 \in Tournaments, t2 \in Tournaments :
        (/\ t1 # t2
         /\ tournament[t1].season_year = tournament[t2].season_year
         /\ Resolved(picks[<<u, t1>>])
         /\ Resolved(picks[<<u, t2>>])) =>
            picks[<<u, t1>>].active_player_id # picks[<<u, t2>>].active_player_id

\* C5: after either batch run, every pick of the tournament is as it was
\* before the run, with the contestant's usage rows as they were, or it is
\* fully resolved: active golfer and points set, exactly one used flag, one
\* usage row for the active golfer.
C5_PerPickAtomic ==
    [][last'.op \in BatchOps =>
         \A u \in PickOwners(last'.t) :
            LET t == last'.t
                after == picks'[<<u, t>>]
            IN \/ /\ after = picks[<<u, t>>]
                  /\ UsageOf(usage', u) = UsageOf(usage, u)
               \/ /\ Resolved(after)
                  /\ after.primary_used # after.backup_used
                  /\ usage'[<<u, after.active_player_id,
                              tournament[t].season_year>>] = 1]_vars

\* C6 (as first stated): when the primary golfer of a pick has no Result row,
\* a process_tournament_results run leaves the pick and the contestant's
\* usage rows as they were; when the primary's Result row exists, the run
\* resolves the pick.
C6_MissingPrimaryDefers_AsStated ==
    [][last'.op = "process_tournament_results" =>
         \A u \in PickOwners(last'.t) :
            LET t == last'.t
            IN IF ~PrimaryResult(u, t).exists
               THEN /\ picks'[<<u, t>>] = picks[<<u, t>>]
                    /\ UsageOf(usage', u) = UsageOf(usage, u)
                    /\ u \notin last'.resolved
               ELSE /\ u \in last'.resolved
                    /\ Resolved(picks'[<<u, t>>])]_vars

\* C6 (amended): when the primary golfer of a pick has no Result row, a
\* process_tournament_results run leaves the pick's points, active golfer and
\* used flags and the contestant's usage rows as they were; a run made when
\* the primary's Result row exists, and the backup's too if that Result is a
\* withdrawal before two completed rounds, resolves the pick.
C6_MissingPrimaryDefers ==
    [][last'.op = "process_tournament_results" =>
         \A u \in PickOwners(last'.t) :
            LET t == last'.t
            IN /\ ~PrimaryResult(u, t).exists =>
                     /\ picks'[<<u, t>>] = picks[<<u, t>>]
                     /\ UsageOf(usage', u) = UsageOf(usage, u)
                     /\ u \notin last'.resolved
               /\ RequiredResultsPresent(u, t) =>
                     /\ u \in last'.resolved
                     /\ Resolved(picks'[<<u, t>>])]_vars

\* C6 witness: a run has resolved one pick and left unresolved, with no
\* points, another whose primary golfer has no Result row
C6_Witness ==
    /\ last.op = "process_tournament_results"
    /\ last.resolved # {}
    /\ \E u \in PickOwners(last.t) \ last.resolved :
          /\ ~PrimaryResult(u, last.t).exists
          /\ picks[<<u, last.t>>].points_earned = NULL
          /\ picks[<<u, last.t>>].active_player_id = NoPlayer

\* C7: after a batch run, every pick of the tournament whose required Results
\* are present stands resolved as the decision procedure resolves it, with
\* its usage row, whatever happened to the other picks of the batch.
C7_BatchFailureIsolation ==
    last.op \in BatchOps =>
        \A u \in PickOwners(last.t) :
            RequiredResultsPresent(u, last.t) =>
                /\ PickTuple(picks[<<u, last.t>>])
                       = PickTuple(ResolveRow(picks, u, last.t).pick)
                /\ usage[<<u, picks[<<u, last.t>>].active_player_id,
                           tournament[last.t].season_year>>] >= 1

\* C8: process_tournament_results returns (processed, skipped) with the id of
\* every pick it did not resolve in skipped, so processed + len(skipped) is
\* the number of picks of the tournament.
C8_ProcessedPlusSkipped ==
    last.op = "process_tournament_results" =>
        /\ last.processed + Len(last.skipped) = Cardinality(PickOwners(last.t))
        /\ \A u \in PickOwners(last.t) \ last.resolved :
              \E i \in DOMAIN last.skipped : last.skipped[i] = u

\* C9: when the Results of primary and backup are both withdrawals before two
\* completed rounds, a resolution sets active = primary, points = 0,
\* primary_used, not backup_used, and creates the usage row for the primary
\* and none for the backup, in team and other events; the batch of app.py
\* always resolves such a pick and leaves the backup without a usage row.
C9_EarlyWdAsymmetry ==
    [][last'.op \in BatchOps =>
         \A u \in PickOwners(last'.t) :
            LET t == last'.t
                before == picks[<<u, t>>]
                after == picks'[<<u, t>>]
                season == tournament[t].season_year
            IN (wd_early(PrimaryResult(u, t)) /\ wd_early(BackupResult(u, t))) =>
                  /\ last'.op = "process_tournament_results" =>
                        /\ u \in last'.resolved
                        /\ usage'[<<u, before.backup_player_id, season>>] = 0
                  /\ u \in last'.resolved =>
                        /\ after.active_player_id = before.primary_player_id
                        /\ after.points_earned = 0
                        /\ after.primary_used
                        /\ ~after.backup_used
                        /\ usage'[<<u, before.primary_player_id, season>>] = 1
                        /\ usage'[<<u, before.backup_player_id, season>>]
                               <= usage[<<u, before.backup_player_id, season>>]]_vars

\* C9 witness: a batch has resolved a pick of a team event whose two golfers
\* both withdrew early
C9_Witness ==
    /\ last.op \in BatchOps
    /\ tournament[last.t].is_team_event
    /\ \E u \in last.resolved :
          /\ wd_early(PrimaryResult(u, last.t))
          /\ wd_early(BackupResult(u, last.t))
          /\ picks[<<u, last.t>>].active_player_id = picks[<<u, last.t>>].primary_player_id

\* C10: when the primary's Result is a withdrawal before two completed rounds
\* and the backup has a Result that is not one, a resolution sets active =
\* backup, points = the backup's earnings (halved, rounded down, in a team
\* event), backup_used, not primary_used, and creates the usage row for the
\* backup and none for the primary; the batch of app.py always resolves such
\* a pick and leaves the primary without a usage row.
C10_Substitution ==
    [][last'.op \in BatchOps =>
         \A u \in PickOwners(last'.t) :
            LET t == last'.t
                before == picks[<<u, t>>]
                after == picks'[<<u, t>>]
                season == tournament[t].season_year
                backup_result == BackupResult(u, t)
            IN (/\ wd_early(PrimaryResult(u, t))
                /\ backup_result.exists
                /\ (backup_result.status # "wd" \/ backup_result.rounds_completed >= 2)) =>
                  /\ last'.op = "process_tournament_results" =>
                        /\ u \in last'.resolved
                        /\ usage'[<<u, before.primary_player_id, season>>] = 0
                  /\ u \in last'.resolved =>
                        /\ after.active_player_id = before.backup_player_id
                        /\ after.points_earned =
                               (IF tournament[t].is_team_event
                                THEN backup_result.earnings \div 2
                                ELSE backup_result.earnings)
                        /\ after.backup_used
                        /\ ~after.primary_used
                        /\ usage'[<<u, before.backup_player_id, season>>] = 1
                        /\ usage'[<<u, before.primary_player_id, season>>]
                               <= usage[<<u, before.primary_player_id, season>>]]_vars

\* C10 witness: a batch has resolved a pick of a team event to its backup,
\* who was paid 3 and brings 1 point
C10_Witness ==
    /\ last.op \in BatchOps
    /\ tournament[last.t].is_team_event
    /\ \E u \in last.resolved :
          /\ wd_early(PrimaryResult(u, last.t))
          /\ BackupResult(u, last.t).earnings = 3
          /\ picks[<<u, last.t>>].active_player_id = picks[<<u, last.t>>].backup_player_id
          /\ picks[<<u, last.t>>].points_earned = 1

C12_TeamEventHalving_AsStated ==
    [][last'.op \in BatchOps =>
         \A u \in last'.resolved :
            LET t == last'.t
                after == picks'[<<u, t>>]
                e == results[<<t, after.active_player_id>>].earnings
            IN IF tournament[t].is_team_event
               THEN /\ 2 * after.points_earned <= e
                    /\ e < 2 * after.points_earned + 2
               ELSE after.points_earned = e]_vars

\* C12 (amended): when primary and backup both withdrew before two completed
\* rounds the points are 0 whatever earnings the primary's Result carries;
\* in every other resolution the points are the earnings of the active
\* golfer in a non-team event and floor(earnings / 2) of them in a team
\* event, whether the primary or the backup is active.
C12_TeamEventHalving ==
    [][last'.op \in BatchOps =>
         \A u \in last'.resolved :
            LET t == last'.t
                after == picks'[<<u, t>>]
                e == results[<<t, after.active_player_id>>].earnings
            IN IF wd_early(PrimaryResult(u, t)) /\ wd_early(BackupResult(u, t))
               THEN after.points_earned = 0
               ELSE IF tournament[t].is_team_event
               THEN /\ 2 * after.points_earned <= e
                    /\ e < 2 * after.points_earned + 2
               ELSE after.points_earned = e]_vars

\* C12 witness: in a team event a pick is resolved to its backup, who earned
\* 15001, with 7500 points
C12_Witness ==
    /\ last.op \in BatchOps
    /\ tournament[last.t].is_team_event
    /\ \E u \in last.resolved :
          /\ picks[<<u, last.t>>].active_player_id = picks[<<u, last.t>>].backup_player_id
          /\ BackupResult(u, last.t).earnings = 15001
          /\ picks[<<u, last.t>>].points_earned = 7500

\* C13: a resolution leaves exactly one of primary_used and backup_used true,
\* primary_used exactly when the active golfer is the primary and backup_used
\* exactly when the active golfer is the backup.
C13_ExactlyOneUsedFlag ==
    [][last'.op \in BatchOps =>
         \A u \in last'.resolved :
            LET after == picks'[<<u, last'.t>>]
            IN /\ after.primary_used # after.backup_used
               /\ after.primary_used <=> after.active_player_id = after.primary_player_id
               /\ after.backup_used <=> after.active_player_id = after.backup_player_id]_vars

\* C13 witness: two resolutions in a row of the pick, the primary active
C13_Witness ==
    /\ last.op = "process_tournament_results"
    /\ last.n >= 2
    /\ \E u \in last.resolved :
          /\ picks[<<u, last.t>>].primary_used
          /\ ~picks[<<u, last.t>>].backup_used
          /\ picks[<<u, last.t>>].points_earned = 15000

\* What the pick of contestant u in tournament t brings to the total: its
\* points when it is resolved and the tournament is complete, else nothing
PointsOfPick(pks, trn, u, t) ==
    IF Resolved(pks[<<u, t>>]) /\ trn[t].status = "complete"
    THEN pks[<<u, t>>].points_earned
    ELSE 0

\* C14: after a batch run, the total_points of every contestant who had a
\* pick resolved in the run is the sum of points_earned over the contestant's
\* resolved picks in complete tournaments, unresolved picks counting 0.
C14_TotalIsSumOfResolved ==
    [][last'.op \in BatchOps =>
         \A u \in last'.resolved :
            total_points'[u] = PointsOfPick(picks', tournament', u, "t1")
                                 + PointsOfPick(picks', tournament', u, "t2")]_vars

\* C14 witness: the contestant's picks of both tournaments are resolved with
\* 3 points each, the batch has just run twice in a row, the total is 6
C14_Witness ==
    /\ last.op \in BatchOps
    /\ last.n >= 2
    /\ "u1" \in last.resolved
    /\ picks[<<"u1", "t1">>].points_earned = 3
    /\ picks[<<"u1", "t2">>].points_earned = 3
    /\ total_points["u1"] = 6

\* C14 witness: a total computed while another pick of the contestant, in a
\* complete tournament, is unresolved
C14_WitnessUnresolved ==
    /\ last.op \in BatchOps
    /\ "u1" \in last.resolved
    /\ \E t \in Tournaments :
          /\ tournament[t].status = "complete"
          /\ picks[<<"u1", t>>].exists
          /\ picks[<<"u1", t>>].points_earned = NULL
    /\ total_points["u1"] = 3

SyncOps == {"sync_tournament_field", "sync_live_leaderboard", "check_withdrawals"}

\* C15: a pick carries points, an active golfer or a used flag, and a
\* contestant has a usage row, only when the tournament of the pick (for the
\* usage row: of some pick of the contestant) has status 'complete'.
C15_ResolvedOnlyWhenComplete ==
    /\ \A u \in Users, t \in Tournaments :
          (\/ picks[<<u, t>>].points_earned # NULL
           \/ picks[<<u, t>>].active_player_id # NoPlayer
           \/ picks[<<u, t>>].primary_used
           \/ picks[<<u, t>>].backup_used) => tournament[t].status = "complete"
    /\ \A u \in Users, p \in Players :
          usage[<<u, p, SEASON_YEAR>>] > 0 =>
              \E t \in Tournaments :
                 picks[<<u, t>>].exists /\ tournament[t].status = "complete"

\* C15 witness: a pick has been resolved with points and a sync command has
\* run since, with the clock not yet at the end date of the tournament
C15_Witness ==
    /\ last.op \in SyncOps
    /\ \E u \in Users, t \in Tournaments :
          /\ Resolved(picks[<<u, t>>])
          /\ picks[<<u, t>>].points_earned > 0
          /\ tournament[t].status = "complete"

\* C16: once the pick deadline of a tournament has passed, no make_pick
\* request creates or modifies a pick of the tournament: neither while
\* is_deadline_passed holds, nor after a field sync that found the deadline
\* passed when it was called.
C16_CutoffLockPermanent ==
    [][\A t \in Tournaments :
          (\/ is_deadline_passed(t)
           \/ (last.op = "sync_tournament_field" /\ t \in last.locked)) =>
             \A u \in Users, p \in Players, b \in Players :
                MakePick(u, t, p, b) => picks' = picks]_vars

\* C17: a make_pick request whose primary equals its backup, or one of whose
\* golfers is not in the field of the tournament or has a usage row of the
\* contestant for the season, leaves table pick as it was; a request that
\* changes the table leaves the contestant's one pick of the tournament with
\* exactly the submitted primary and backup, and no other row touched.
C17_MakePickValidation ==
    [][\A u \in Users, t \in Tournaments, p \in Players, b \in Players :
          MakePick(u, t, p, b) =>
             /\ (\/ p = b
                 \/ p \notin field[t]
                 \/ b \notin field[t]
                 \/ usage[<<u, p, SEASON_YEAR>>] > 0
                 \/ usage[<<u, b, SEASON_YEAR>>] > 0) => picks' = picks
             /\ picks' # picks =>
                   /\ picks'[<<u, t>>].exists
                   /\ picks'[<<u, t>>].primary_player_id = p
                   /\ picks'[<<u, t>>].backup_player_id = b
                   /\ \A k \in Users \X Tournaments :
                         k # <<u, t>> => picks'[k] = picks[k]]_vars

\* C17 witness: the contestant, who has a usage row for one golfer, holds an
\* unresolved pick of another tournament made of two other golfers of its field
C17_Witness ==
    \E u \in Users, t \in Tournaments, g \in Players :
       /\ usage[<<u, g, SEASON_YEAR>>] > 0
       /\ picks[<<u, t>>].exists
       /\ ~Resolved(picks[<<u, t>>])
       /\ ~is_deadline_passed(t)
       /\ g \notin {picks[<<u, t>>].primary_player_id, picks[<<u, t>>].backup_player_id}
       /\ {picks[<<u, t>>].primary_player_id, picks[<<u, t>>].backup_player_id}
             \subseteq field[t]

\* A golfer of the pick is not in the field of the tournament, or is recorded
\* in the contestant's usage rows by a resolved pick of another tournament
NoLongerValid(u, t) ==
    LET golfers == {picks[<<u, t>>].primary_player_id, picks[<<u, t>>].backup_player_id}
    IN \/ ~(golfers \subseteq field[t])
       \/ \E o \in Tournaments :
             /\ o # t
             /\ tournament[o].season_year = tournament[t].season_year
             /\ Resolved(picks[<<u, o>>])
             /\ picks[<<u, o>>].active_player_id \in golfers
             /\ usage[<<u, picks[<<u, o>>].active_player_id,
                       tournament[t].season_year>>] > 0

\* C18: a batch run leaves every unresolved pick of its tournament that is no
\* longer valid (a golfer out of the field, or already in the contestant's usage
\* rows through a pick of another tournament) unresolved, with the contestant's
\* usage rows as they were.
C18_ResolutionRevalidation ==
    [][last'.op \in BatchOps =>
         \A u \in PickOwners(last'.t) :
            (~Resolved(picks[<<u, last'.t>>]) /\ NoLongerValid(u, last'.t)) =>
               /\ u \notin last'.resolved
               /\ picks'[<<u, last'.t>>] = picks[<<u, last'.t>>]
               /\ UsageOf(usage', u) = UsageOf(usage, u)]_vars

\* The order of the lifecycle: upcoming, active, complete
StatusRank(status) ==
    IF status = "upcoming" THEN 0 ELSE IF status = "active" THEN 1 ELSE 2

\* C19: no step moves the status of a tournament backwards in the order
\* upcoming, active, complete.
C19_StatusOnlyForward ==
    [][\A t \in Tournaments :
          tournament[t].exists =>
             StatusRank(tournament'[t].status) >= StatusRank(tournament[t].status)]_vars

\* The three calls that ingest Results from the provider
IngestOps == {"sync_tournament_results", "sync_live_leaderboard", "check_withdrawals"}

\* C20: when the provider call of sync_tournament_results,
\* sync_live_leaderboard or check_withdrawals on a tournament comes back with
\* no data, the call returns 0 (an empty list), every Result row of the
\* tournament is as it was, and the tournament keeps the status it had when
\* the call was entered and its results_finalized flag.
C20_UpstreamFailureChangesNothing ==
    [][last'.op \in IngestOps =>
         \A t \in last'.nodata :
            /\ last'.returned[t] = 0
            /\ \A p \in Players : results'[<<t, p>>] = results[<<t, p>>]
            /\ tournament'[t].status = last'.entry_status[t]
            /\ tournament'[t].results_finalized = tournament[t].results_finalized]_vars

\* C20 witness: a live leaderboard sync of a tournament that has Result rows
\* came back without data
C20_Witness ==
    /\ last.op = "sync_live_leaderboard"
    /\ \E t \in last.nodata : \E p \in Players : results[<<t, p>>].exists

\* The same for sync_tournament_results and check_withdrawals
C20_WitnessResults ==
    /\ last.op = "sync_tournament_results"
    /\ \E t \in last.nodata : \E p \in Players : results[<<t, p>>].exists

C20_WitnessWithdrawals ==
    /\ last.op = "check_withdrawals"
    /\ \E t \in last.nodata : \E p \in Players : results[<<t, p>>].exists

-----------------------------------------------------------------------------
\* C21: once a tournament is finalized (results_finalized set), it stays
\* finalized and complete, and a step changes a Result row of the tournament
\* only if it is a sync_tournament_results call on it, which writes the
\* provider's earnings payload: no field, live, live-with-wd or withdrawal
\* run writes a projected value over the official earnings.
C21_OfficialEarningsStay ==
    [][\A t \in Tournaments :
          tournament[t].results_finalized =>
             /\ tournament'[t].results_finalized
             /\ tournament'[t].status = "complete"
             /\ (\E p \in Players : results'[<<t, p>>] # results[<<t, p>>]) =>
                   (last'.op = "sync_tournament_results" /\ t \in last'.called)]_vars

\* C21 witness: a live run (live or live-with-wd) has just ended while a
\* tournament it could have reached by its dates is finalized with the
\* official earnings in its Result rows
C21_Witness ==
    /\ last.op \in {"sync_live_leaderboard", "live-with-wd"}
    /\ \E t \in get_active_tournaments_AnyStatus :
          /\ tournament[t].results_finalized
          /\ \A p \in field[t] : /\ results[<<t, p>>].exists
                                 /\ results[<<t, p>>].earnings = 3
          /\ field[t] # {}

-----------------------------------------------------------------------------
\* C22: a _make_request call makes at most `retries` HTTP attempts; no attempt
\* follows a 200 response; a call that is over returned the JSON body if one
\* of its attempts got a 200 and None if none did, and it slept fewer times
\* than it made attempts (no sleep after the final attempt).
C22_MakeRequestBounded ==
    LET n == Len(request.responses)
        Is200(i) == /\ ~request.responses[i].raised
                    /\ request.responses[i].status_code = 200
    IN /\ n <= request.retries
       /\ \A i \in 1..(n - 1) : ~Is200(i)
       /\ request.pc = "sleep" => request.attempt < request.retries
       /\ request.pc = "done" =>
             /\ (\E i \in 1..n : Is200(i)) => request.returned = "json"
             /\ ~(\E i \in 1..n : Is200(i)) => request.returned = "None"
             /\ request.slept <= IF n = 0 THEN 0 ELSE n - 1

\* The call always ends
C22_Terminates == <>(request.pc = "done")

\* C26: an attempt answered with a status code other than 200, 429, 500,
\* 502, 503, 504 ends the call with None, and nothing is attempted after the
\* call has ended; an attempt answered with 429, 500, 502, 503 or 504, or
\* that raised a network exception, while fewer than `retries` attempts have
\* been made, leaves the call sleeping, and the sleep leads to the next
\* attempt.
C26_TerminalEndsRetryableContinues ==
    [][/\ request.pc = "done" => request'.responses = request.responses
       /\ request.pc = "sleep" =>
             /\ request'.pc = "get"
             /\ request'.attempt = Len(request.responses) + 1
             /\ request'.attempt <= request.retries
       /\ Len(request'.responses) = Len(request.responses) + 1 =>
             LET n == Len(request'.responses)
                 response == request'.responses[n]
             IN /\ (/\ ~response.raised
                    /\ response.status_code \notin {200, 429, 500, 502, 503, 504}) =>
                       /\ request'.pc = "done"
                       /\ request'.returned = "None"
                /\ (/\ \/ response.raised
                       \/ response.status_code \in {429, 500, 502, 503, 504}
                    /\ n < request.retries) =>
                       /\ request'.pc = "sleep"
                       /\ request'.returned = "nothing"]_vars

\* C26 witness: a call allowed five attempts ended with None at its third,
\* a 404, after a 429 and a network exception
C26_Witness ==
    /\ request.pc = "done"
    /\ request.returned = "None"
    /\ request.retries = 5
    /\ Len(request.responses) = 3
    /\ request.responses[1].status_code = 429
    /\ request.responses[2].raised
    /\ request.responses[3].status_code = 404
    /\ request.slept = 2

-----------------------------------------------------------------------------
\* The share of the purse of one rank in units of 0.00001: the table up to
\* rank 65, 0.00213 less 0.00002 per rank from 66 to 80, nothing above
PercentageUnits(rank) ==
    IF rank <= 65 THEN 10 * PAYOUT_PERCENTAGES[rank]
    ELSE IF rank <= 80 THEN 213 - 2 * (rank - 66)
    ELSE 0

RECURSIVE SumOfUnits(_, _)
SumOfUnits(rank, n) ==
    IF n = 0 THEN 0 ELSE PercentageUnits(rank + n - 1) + SumOfUnits(rank, n - 1)

\* floor(purse * units / (100000 * n))
TieSplit(purse, units, n) ==
    NatOf(NatDivMod(NatDivMod(NatMul(Limbs(purse), Limbs(units)), 100000).quot, n).quot)

\* C23: for a position string of rank R from 1 to 80 that N entries of the
\* leaderboard carry, calculate_projected_earnings returns
\* floor(purse * (sum of the percentages of ranks R .. R+N-1) / N).
C23_TieSplit ==
    (projection.pc = "done" /\ projection.purse > 0) =>
        LET str == projection.position_str
            number == IF str[1] = "T" THEN Tail(str) ELSE str
            n == Cardinality({i \in DOMAIN projection.all_positions :
                                 projection.all_positions[i] = str})
        IN (IsInt(number) /\ IntOf(number) \in 1..80 /\ n >= 1) =>
              projection.returned =
                  TieSplit(projection.purse, SumOfUnits(IntOf(number), n), n)

\* C24: whatever live syncs, withdrawal checks, final syncs and batch runs
\* came before, a process_tournament_results run leaves every pick of the
\* tournament whose required Results exist resolved, with the (active golfer,
\* points, used flags) that the decision procedure gives on the Results as
\* they now are.
C24_ConvergesOnFinalResults ==
    [][last'.op = "process_tournament_results" =>
         \A u \in PickOwners(last'.t) :
            RequiredResultsPresent(u, last'.t) =>
               /\ u \in last'.resolved
               /\ PickTuple(picks'[<<u, last'.t>>])
                      = PickTuple(ResolveRow(picks, u, last'.t).pick)]_vars

\* C24 witness: the run has resolved a pick by its backup on a Result row put
\* together by two ingestions, the live sync (projected earnings 2) and the
\* withdrawal check (status wd in round 1)
C24_Witness ==
    /\ last.op = "process_tournament_results"
    /\ \E u \in last.resolved :
          /\ PrimaryResult(u, last.t) =
                [exists |-> TRUE, status |-> "wd", rounds_completed |-> 1, earnings |-> 2]
          /\ picks[<<u, last.t>>].active_player_id = picks[<<u, last.t>>].backup_player_id
          /\ picks[<<u, last.t>>].points_earned = BackupResult(u, last.t).earnings

\* C25: when a process_tournament_results run has just ended and its
\* tournament is the only complete one, every usage row (contestant, golfer,
\* season) belongs to a resolved pick of the contestant in the season whose
\* active golfer is that golfer.
C25_NoOrphanedUsage ==
    (/\ last.op = "process_tournament_results"
     /\ \A t \in Tournaments :
           (tournament[t].exists /\ tournament[t].status = "complete") => t = last.t) =>
        \A u \in Users, g \in Players :
           usage[<<u, g, SEASON_YEAR>>] > 0 =>
              \E t \in Tournaments :
                 /\ tournament[t].season_year = SEASON_YEAR
                 /\ Resolved(picks[<<u, t>>])
                 /\ picks[<<u, t>>].active_player_id = g

\* C28: a refresh_tournament_states call for a static endpoint or for no
\* endpoint changes no tournament and records nothing; so does a call made
\* less than STATUS_REFRESH_INTERVAL_SECONDS after the recorded refresh; any
\* other call gives every upcoming or active tournament of the season the
\* status its dates give it at the current time, leaves the other tournaments
\* alone and records the current time as the last refresh.
C28_RefreshThrottled ==
    [][last'.op = "refresh_tournament_states" =>
         LET elapsed == (now - last_status_refresh.now) * TickSeconds
                           + (seconds - last_status_refresh.seconds)
             recent == /\ last_status_refresh # NoRefresh
                       /\ elapsed < STATUS_REFRESH_INTERVAL_SECONDS
         IN IF last'.endpoint \in {"None", "static"} \/ recent
            THEN /\ ~last'.queried
                 /\ UNCHANGED <<tournament, last_status_refresh>>
            ELSE /\ last'.queried
                 /\ last_status_refresh' = [now |-> now, seconds |-> seconds]
                 /\ \A t \in Tournaments :
                       tournament'[t] =
                          IF /\ tournament[t].exists
                             /\ tournament[t].season_year = SEASON_YEAR
                             /\ tournament[t].status \in {"upcoming", "active"}
                          THEN update_status_from_time(tournament[t])
                          ELSE tournament[t]]_vars

\* C28 witness: exactly the interval after the recorded refresh, a request
\* for a view has refreshed again and moved a tournament of the season to
\* "active", while a tournament of the next season that has started stays
\* "upcoming"
C28_Witness ==
    /\ last.op = "refresh_tournament_states"
    /\ last.queried
    /\ last.elapsed = STATUS_REFRESH_INTERVAL_SECONDS
    /\ last_status_refresh = [now |-> now, seconds |-> seconds]
    /\ tournament["t1"].status = "active"
    /\ tournament["t2"].season_year # SEASON_YEAR
    /\ tournament["t2"].start_date <= now
    /\ tournament["t2"].status = "upcoming"

\* C28 witness of the throttle: a request for a view has found a tournament
\* overdue for "active" and left it "upcoming", the recorded refresh being
\* less than the interval old
C28_WitnessThrottled ==
    /\ last.op = "refresh_tournament_states"
    /\ last.endpoint = "index"
    /\ ~last.queried
    /\ last.elapsed # NULL
    /\ last.elapsed < STATUS_REFRESH_INTERVAL_SECONDS
    /\ tournament["t1"].status = "upcoming"
    /\ update_status_from_time(tournament["t1"]).status = "active"

\* C28 witness of the static endpoint: a request for a static file has found
\* a tournament overdue for "active" and no refresh recorded, and left both
C28_WitnessStatic ==
    /\ last.op = "refresh_tournament_states"
    /\ last.endpoint = "static"
    /\ last_status_refresh = NoRefresh
    /\ tournament["t1"].status = "upcoming"
    /\ update_status_from_time(tournament["t1"]).status = "active"

\* C27: a sync_tournament_results call changes a Result row or a tournament
\* row only when the provider's leaderboard status was "complete" or
\* "official", the earnings payload was fetched and nothing raised; it then
\* leaves the tournament "complete" with results_finalized set and every
\* listed player's Result holding the listed earnings; any other call returns
\* 0 and changes neither table.  After every step of any handler,
\* results_finalized implies status "complete".
C27_FinalizeAllOrNothing ==
    [][/\ last'.op = "sync_tournament_results" =>
            \A t \in last'.called :
               LET answer == last'.answer
                   ready == /\ answer.leaderboard \in {"complete", "official"}
                            /\ answer.earnings_fetched
               IN IF ready /\ ~answer.raises
                  THEN /\ tournament'[t].status = "complete"
                       /\ tournament'[t].results_finalized
                       /\ \A x \in Tournaments \ {t} : tournament'[x] = tournament[x]
                       /\ \A p \in DOMAIN answer.rows :
                             /\ results'[<<t, p>>].exists
                             /\ results'[<<t, p>>].earnings = answer.rows[p].earnings
                       /\ last'.returned[t] = Cardinality(DOMAIN answer.rows)
                  ELSE /\ UNCHANGED <<results, tournament>>
                       /\ last'.returned[t] = 0
       /\ \A t \in Tournaments :
             tournament'[t].results_finalized => tournament'[t].status = "complete"]_vars

\* C27 witness: the call has finalized a tournament that was still "active"
\* when it was entered, on a leaderboard reported official
C27_Witness ==
    /\ last.op = "sync_tournament_results"
    /\ \E t \in last.called :
          /\ last.answer.leaderboard = "official"
          /\ last.entry_status[t] = "active"
          /\ last.returned[t] > 0
          /\ tournament[t].status = "complete"
          /\ tournament[t].results_finalized
          /\ \A p \in field[t] : results[<<t, p>>].earnings = 3

\* C27 witness of the rollback: the try block has raised on a final
\* leaderboard with its earnings list, and the tournament is still "active"
\* and not finalized, its Result rows holding the projected earnings
C27_WitnessRollback ==
    /\ last.op = "sync_tournament_results"
    /\ last.raised
    /\ \E t \in last.called :
          /\ last.returned[t] = 0
          /\ tournament[t].status = "active"
          /\ ~tournament[t].results_finalized
          /\ \E p \in field[t] : results[<<t, p>>].exists /\ results[<<t, p>>].earnings = 2

\* C27 witness of the early return: the earnings list was there but the
\* leaderboard was still in progress, and nothing is finalized
C27_WitnessNotReady ==
    /\ last.op = "sync_tournament_results"
    /\ last.answer.leaderboard = "in_progress"
    /\ last.answer.earnings_fetched
    /\ \E t \in last.called :
          /\ last.returned[t] = 0
          /\ ~tournament[t].results_finalized
          /\ \A p \in Players : ~results[<<t, p>>].exists

\* C29: after every step, a tournament with a Field-Entry has a pick
\* deadline.  A sync_tournament_field call whose payload is unusable or whose
\* try block raises leaves the Field-Entries and the deadline of the
\* tournament as they were; any other call leaves the earliest tee time of
\* its payload as the deadline or, the payload carrying none, the start date
\* at the fallback hour or the deadline already stored.  A make_pick request
\* writes a Pick only for a tournament whose deadline is set.
C29_FieldImpliesDeadline ==
    [][/\ \A t \in Tournaments : field'[t] # {} => tournament'[t].pick_deadline # NULL
       /\ last'.op = "sync_tournament_field" =>
             \A t \in last'.called :
                IF t \in last'.failed
                THEN /\ field'[t] = field[t]
                     /\ tournament'[t].pick_deadline = tournament[t].pick_deadline
                     /\ last'.returned[t] = 0
                ELSE /\ field[t] \subseteq field'[t]
                     /\ tournament'[t].pick_deadline # NULL
                     /\ IF last'.tee_time[t] # NULL
                        THEN tournament'[t].pick_deadline = last'.tee_time[t]
                        ELSE \/ tournament'[t].pick_deadline =
                                   apply_fixed_deadline(tournament[t]).pick_deadline
                             \/ tournament'[t].pick_deadline = tournament[t].pick_deadline
       /\ \A u \in Users, t \in Tournaments, p \in Players, b \in Players :
             (MakePick(u, t, p, b) /\ picks'[<<u, t>>] # picks[<<u, t>>]) =>
                 tournament[t].pick_deadline # NULL]_vars

\* C29 witness: a field sync without tee times has given a tournament its
\* first Field-Entries and the fallback deadline
C29_Witness ==
    /\ last.op = "sync_tournament_field"
    /\ \E t \in last.called \ last.failed :
          /\ last.tee_time[t] = NULL
          /\ last.returned[t] = Cardinality(field[t])
          /\ field[t] # {}
          /\ tournament[t].pick_deadline = tournament[t].start_date

\* C29 witness of the failed sync: the try block has raised on a payload with
\* rows and a tee time, and the tournament has no Field-Entry and no deadline
C29_WitnessFailed ==
    /\ last.op = "sync_tournament_field"
    /\ \E t \in last.failed \ last.nodata :
          /\ last.tee_time[t] # NULL
          /\ field[t] = {}
          /\ tournament[t].pick_deadline = NULL

\* C29 witness of the submission: a contestant holds a Pick of a tournament
\* whose deadline came from the tee times of a field sync
C29_WitnessPick ==
    \E u \in Users, t \in Tournaments :
       /\ picks[<<u, t>>].exists
       /\ field[t] # {}
       /\ tournament[t].pick_deadline # NULL
       /\ tournament[t].pick_deadline # tournament[t].start_date

\* C30: a sync_tournament_field run delivers "Picks Are Open" emails for a
\* tournament only if it did not fail, the tournament has at least
\* MIN_FIELD_SIZE Field-Entries when it ends and picks_open_notified was unset
\* when it began; a run that begins with the flag set delivers none and keeps
\* the flag; a run sets the flag only if it delivered an email, and a run that
\* delivered none leaves the flag as it was.  No other step changes the flag.
C30_PicksOpenOnce ==
    [][IF last'.op = "sync_tournament_field"
       THEN \A t \in last'.called :
               LET field_count == Cardinality(field'[t]) + field_others'[t]
               IN /\ last'.emails[t] > 0 =>
                        /\ t \notin last'.failed
                        /\ field_count >= MIN_FIELD_SIZE
                        /\ ~tournament[t].picks_open_notified
                  /\ tournament[t].picks_open_notified =>
                        /\ last'.emails[t] = 0
                        /\ tournament'[t].picks_open_notified
                  /\ (tournament'[t].picks_open_notified
                         /\ ~tournament[t].picks_open_notified) => last'.emails[t] > 0
                  /\ last'.emails[t] = 0 =>
                        tournament'[t].picks_open_notified
                           = tournament[t].picks_open_notified
       ELSE \A t \in Tournaments :
               tournament'[t].picks_open_notified = tournament[t].picks_open_notified]_vars

\* C30 witness: with the flag set by an earlier run, a run that did not fail
\* has ended with a field of MIN_FIELD_SIZE and delivered nothing
C30_Witness ==
    /\ last.op = "sync_tournament_field"
    /\ \E t \in last.called \ last.failed :
          /\ tournament[t].picks_open_notified
          /\ Cardinality(field[t]) + field_others[t] >= MIN_FIELD_SIZE
          /\ last.emails[t] = 0

\* C30 witness of the retry: a run that added no Field-Entry to a field that
\* had reached MIN_FIELD_SIZE before has delivered the notification and set
\* the flag
C30_WitnessRetry ==
    /\ last.op = "sync_tournament_field"
    /\ \E t \in last.called \ last.failed :
          /\ last.returned[t] = 0
          /\ last.emails[t] > 0
          /\ tournament[t].picks_open_notified

\* C30 witness of the small field: a run has ended one Field-Entry short of
\* MIN_FIELD_SIZE and delivered nothing, the flag being unset
C30_WitnessSmallField ==
    /\ last.op = "sync_tournament_field"
    /\ \E t \in last.called \ last.failed :
          /\ Cardinality(field[t]) + field_others[t] = MIN_FIELD_SIZE - 1
          /\ last.emails[t] = 0
          /\ ~tournament[t].picks_open_notified

=============================================================================
